---- MODULE Spec2Model ----
(***************************************************************************)
(* A model of the order-book mirror (phoenix-sdk-core/src/orderbook.rs)    *)
(* of the execution simulator (crates/phoenix-sdk/src/ladder_utils.rs) and *)
(* of the event translators (parse_phoenix_events of                       *)
(* phoenix-sdk-core/src/sdk_client_core.rs, parse_wrapper_events of        *)
(* phoenix-sdk/src/sdk_client.rs), of the packet decoder                   *)
(* (phoenix-sdk-core/src/packet_decoder.rs), of the integer unit           *)
(* conversions of SDKClientCore, of MarketEventHandler::handle_events      *)
(* (phoenix-sdk/src/market_event_handler.rs), of EventPoller::run          *)
(* (phoenix-sdk/src/event_poller.rs) and of the mirror shared between a    *)
(* writer and its readers.                                                 *)
(*                                                                         *)
(* Keys and values are u64 (impl OrderbookKey for u64, impl OrderbookValue *)
(* for u64).  All modelled quantities stay far below 2^53 and 2^64, where  *)
(* u64 -> f64 (to_f64) is exact and u64 arithmetic neither wraps nor       *)
(* panics, so the integers of the model are the values the code computes.  *)
(* The unit conversions, the products of the translators' FillSummary and  *)
(* Fee arms, and the simulator's prices with the product and the sum of    *)
(* sell_base are the exception: they keep the 64 bits, as 16-bit limbs.    *)
(***************************************************************************)
EXTENDS Integers, Sequences, FiniteSets, TLC

\* ---------------------------------------------------------------- bounds
MaxPrice == 2
MaxQty == 2
MaxOrders == 1
\* the longest list of pairs one update_orders call takes in BatchSpec
MaxBatch == 2
\* the simulator's ladders and budgets
MaxLevels == 3
MaxTick == 2
MaxLots == 2
MaxBudget == 5
\* the translators: raw records per transaction, sub-records per transaction
MaxRecords == 2
MaxSubRecords == 3

Prices == 1..MaxPrice
Sizes == 0..MaxQty
Sides == {"Bid", "Ask"}
Pairs == Prices \X Sizes
OrderLists == UNION {[1..n -> Pairs] : n \in 0..MaxOrders}
\* (raw_base_units_per_base_lot, quote_units_per_raw_base_unit_per_tick):
\* Orderbook::default() and a from_market-style construction
Multipliers == {<<0, 0>>, <<1, 10>>}

VARIABLES
    bids,       \* Orderbook.bids : BTreeMap<K, V>, a function price -> size
    asks,       \* Orderbook.asks : BTreeMap<K, V>
    raw_base_units_per_base_lot,
    quote_units_per_raw_base_unit_per_tick,
    call,       \* the call in progress on the mirror: [op, side, orders]
    pre,        \* the book that call found: [bids, asks]
    steps,      \* update_orders: the book after each pair of the list
    ret,        \* get_bids / get_asks: the returned Vec<(K, V)>
    ladder,     \* Ladder { bids: Vec<LadderOrder>, asks: Vec<LadderOrder> }
    sim,        \* the simulator call in progress and what it returned
    markets,    \* SDKClientCore.markets: the keys of the loaded markets
    parse,      \* the translator call in progress and what it returned
    sdk_client, \* SDKClient: [markets: BTreeMap<Pubkey, MarketMetadata>,
                \* active_market_key]
    decode,     \* the packet decoder call in progress and what it returned
    metadata,   \* the MarketMetadata of the loaded market (its lot sizes)
    conv,       \* the unit conversion in progress and what it returned
    handling,   \* the handle_events call in progress, its invocations
    ledger,     \* the number of transactions of the market on the ledger
    poller,     \* EventPoller::run: its position, `until`, the for loop's
                \* remaining items, the batches it sent
    connected,  \* the Receiver of the channel is alive
    channel,    \* the batches the Receiver was given
    writer,     \* the update_orders call running statement by statement
    reader      \* the vwap calls running beside it, and what they read

bookVars == <<bids, asks, raw_base_units_per_base_lot,
              quote_units_per_raw_base_unit_per_tick, call, pre, steps, ret>>
simVars == <<ladder, sim>>
parseVars == <<markets, parse, sdk_client>>
pollVars == <<ledger, poller, connected, channel>>
lockVars == <<writer, reader>>
auxVars == <<decode, metadata, conv, handling, pollVars, lockVars>>
vars == <<bids, asks, raw_base_units_per_base_lot,
          quote_units_per_raw_base_unit_per_tick, call, pre, steps, ret,
          ladder, sim, markets, parse, sdk_client, decode, metadata, conv, handling,
          ledger, poller, connected, channel, writer, reader>>

\* ------------------------------------------------ OrderbookKey / Value
\* impl OrderbookKey for u64: self.to_f64().unwrap(), exact below 2^53
price(k) == k
\* impl OrderbookValue for u64
size(v) == v

\* ------------------------------------------------------------ BTreeMap
BTreeNew == <<>>
BTreeRemove(m, k) == [x \in (DOMAIN m) \ {k} |-> m[x]]
\* a map that adds to the value it finds instead of replacing it
BTreeInsertAdding(m, k, v) ==
    [x \in (DOMAIN m) \cup {k} |->
        IF x = k THEN (IF k \in DOMAIN m THEN m[k] + v ELSE v) ELSE m[x]]
BTreeInsert(m, k, v) == [x \in (DOMAIN m) \cup {k} |-> IF x = k THEN v ELSE m[x]]
\* iter().next(): the entry with the smallest key
BTreeFirst(m) == CHOOSE k \in DOMAIN m : \A j \in DOMAIN m : k <= j
\* iter().rev().next(): the entry with the largest key
BTreeLast(m) == CHOOSE k \in DOMAIN m : \A j \in DOMAIN m : k >= j
\* iter(): the entries in ascending key order
RECURSIVE BTreeIter(_)
BTreeIter(m) ==
    IF DOMAIN m = {} THEN <<>>
    ELSE LET k == BTreeFirst(m)
         IN  <<(<<k, m[k]>>)>> \o BTreeIter(BTreeRemove(m, k))
\* an iterator that is not reversed
RevMissing(s) == s
\* Iterator::rev
RECURSIVE Rev(_)
Rev(s) == IF s = <<>> THEN <<>> ELSE Rev(Tail(s)) \o <<Head(s)>>

\* ------------------------------------------------------- update_orders
\* 2.0 * (side == Side::Bid) as u64 as f64 - 1.0
sign(side) == 2 * (IF side = "Bid" THEN 1 ELSE 0) - 1

\* the best entry of the opposite book, seen from `side`
opposite_best(side, opposite_book) ==
    IF side = "Bid" THEN BTreeFirst(opposite_book) ELSE BTreeLast(opposite_book)

\* a crossing test that lets a touching price stand (> for >=)
RECURSIVE resolve_crossing_strict(_, _, _)
resolve_crossing_strict(side, p, opposite_book) ==
    IF DOMAIN opposite_book = {}
    THEN [opp |-> opposite_book, iters |-> 0]
    ELSE LET key == opposite_best(side, opposite_book)
         IN  IF price(p) * sign(side) > price(key) * sign(side)
             THEN LET r == resolve_crossing_strict(side, p, BTreeRemove(opposite_book, key))
                  IN  [opp |-> r.opp, iters |-> r.iters + 1]
             ELSE [opp |-> opposite_book, iters |-> 0]
\* an `if` for the `loop`: at most one opposite entry is removed
resolve_crossing_once(side, p, opposite_book) ==
    IF DOMAIN opposite_book = {}
    THEN [opp |-> opposite_book, iters |-> 0]
    ELSE LET key == opposite_best(side, opposite_book)
         IN  IF price(p) * sign(side) >= price(key) * sign(side)
             THEN [opp |-> BTreeRemove(opposite_book, key), iters |-> 1]
             ELSE [opp |-> opposite_book, iters |-> 0]
\* a loop whose single iteration removes every crossed entry at once
resolve_crossing_sweeping(side, p, opposite_book) ==
    LET hit == {k \in DOMAIN opposite_book :
                   price(p) * sign(side) >= price(k) * sign(side)}
    IN  [opp |-> [k \in (DOMAIN opposite_book) \ hit |-> opposite_book[k]],
         iters |-> IF hit = {} THEN 0 ELSE 1]
\* the `loop` of update_orders: [opp |-> the opposite book left, iters |-> removals]
RECURSIVE resolve_crossing(_, _, _)
resolve_crossing(side, p, opposite_book) ==
    IF DOMAIN opposite_book = {}
    THEN [opp |-> opposite_book, iters |-> 0]
    ELSE LET key == opposite_best(side, opposite_book)
         IN  IF price(p) * sign(side) >= price(key) * sign(side)
             THEN LET r == resolve_crossing(side, p, BTreeRemove(opposite_book, key))
                  IN  [opp |-> r.opp, iters |-> r.iters + 1]
             ELSE [opp |-> opposite_book, iters |-> 0]

\* a zero quantity stored like any other
apply_order_keeping_zero(book, opposite_book, side, order) ==
    LET r == resolve_crossing(side, order[1], opposite_book)
    IN  [book |-> BTreeInsert(book, order[1], order[2]), opp |-> r.opp, iters |-> r.iters]
\* a crossing that leaves the residual of a larger opposite entry
apply_order_netting(book, opposite_book, side, order) ==
    LET p == order[1]
        qty == order[2]
        r == resolve_crossing(side, p, opposite_book)
        hit == (DOMAIN opposite_book) \ (DOMAIN r.opp)
    IN  IF size(qty) = 0
        THEN [book |-> BTreeRemove(book, p), opp |-> opposite_book, iters |-> 0]
        ELSE [book |-> BTreeInsert(book, p, qty),
              opp |-> [k \in (DOMAIN r.opp) \cup {h \in hit : size(opposite_book[h]) > size(qty)}
                          |-> IF k \in hit THEN opposite_book[k] - qty ELSE opposite_book[k]],
              iters |-> r.iters]
\* a zero quantity stored when the price holds no entry yet
apply_order_materializing_zero(book, opposite_book, side, order) ==
    LET p == order[1]
        qty == order[2]
    IN  IF size(qty) = 0 /\ p \in DOMAIN book
        THEN [book |-> BTreeRemove(book, p), opp |-> opposite_book, iters |-> 0]
        ELSE LET r == resolve_crossing(side, p, opposite_book)
             IN  [book |-> BTreeInsert(book, p, qty), opp |-> r.opp, iters |-> r.iters]
\* a removal that resolves crossing like an upsert
apply_order_always_resolving(book, opposite_book, side, order) ==
    LET p == order[1]
        qty == order[2]
        r == resolve_crossing(side, p, opposite_book)
    IN  IF size(qty) = 0
        THEN [book |-> BTreeRemove(book, p), opp |-> r.opp, iters |-> r.iters]
        ELSE [book |-> BTreeInsert(book, p, qty), opp |-> r.opp, iters |-> r.iters]
\* one iteration of `for (price, qty) in orders`
apply_order(book, opposite_book, side, order) ==
    LET p == order[1]
        qty == order[2]
    IN  IF size(qty) = 0
        THEN [book |-> BTreeRemove(book, p), opp |-> opposite_book, iters |-> 0]
        ELSE LET r == resolve_crossing(side, p, opposite_book)
             IN  [book |-> BTreeInsert(book, p, qty), opp |-> r.opp, iters |-> r.iters]

\* a loop that takes the pairs last to first
RECURSIVE run_orders_last_first(_, _, _, _)
run_orders_last_first(book, opposite_book, side, orders) ==
    IF orders = <<>> THEN <<>>
    ELSE LET s == apply_order(book, opposite_book, side, orders[Len(orders)])
         IN  <<s>> \o run_orders_last_first(s.book, s.opp, side,
                                            SubSeq(orders, 1, Len(orders) - 1))
\* the whole `for` loop: the (book, opposite_book) after each pair, in order
RECURSIVE run_orders(_, _, _, _)
run_orders(book, opposite_book, side, orders) ==
    IF orders = <<>> THEN <<>>
    ELSE LET s == apply_order(book, opposite_book, side, Head(orders))
         IN  <<s>> \o run_orders(s.book, s.opp, side, Tail(orders))

NoCall == [op |-> "none", side |-> "Bid", orders |-> <<>>]
Idle == call.op = "none"

update_orders(side, orders) ==
    /\ Idle
    /\ LET book == IF side = "Bid" THEN bids ELSE asks
           opposite_book == IF side = "Bid" THEN asks ELSE bids
           trace == run_orders(book, opposite_book, side, orders)
           last == IF trace = <<>>
                   THEN [book |-> book, opp |-> opposite_book, iters |-> 0]
                   ELSE trace[Len(trace)]
       IN  /\ bids' = IF side = "Bid" THEN last.book ELSE last.opp
           /\ asks' = IF side = "Bid" THEN last.opp ELSE last.book
           /\ steps' = trace
    /\ call' = [op |-> "update_orders", side |-> side, orders |-> orders]
    /\ pre' = [bids |-> bids, asks |-> asks]
    /\ ret' = <<>>
    /\ UNCHANGED <<raw_base_units_per_base_lot, quote_units_per_raw_base_unit_per_tick>>
    /\ UNCHANGED <<simVars, parseVars, auxVars>>

get_bids ==
    /\ Idle
    /\ ret' = Rev(BTreeIter(bids))
    /\ call' = [op |-> "get_bids", side |-> "Bid", orders |-> <<>>]
    /\ pre' = [bids |-> bids, asks |-> asks]
    /\ steps' = <<>>
    /\ UNCHANGED <<bids, asks, raw_base_units_per_base_lot,
                   quote_units_per_raw_base_unit_per_tick>>
    /\ UNCHANGED <<simVars, parseVars, auxVars>>

get_asks ==
    /\ Idle
    /\ ret' = BTreeIter(asks)
    /\ call' = [op |-> "get_asks", side |-> "Ask", orders |-> <<>>]
    /\ pre' = [bids |-> bids, asks |-> asks]
    /\ steps' = <<>>
    /\ UNCHANGED <<bids, asks, raw_base_units_per_base_lot,
                   quote_units_per_raw_base_unit_per_tick>>
    /\ UNCHANGED <<simVars, parseVars, auxVars>>

\* what self.update_orders(side, orders) makes of the book (b, a)
book_after(b, a, side, orders) ==
    LET book == IF side = "Bid" THEN b ELSE a
        opposite_book == IF side = "Bid" THEN a ELSE b
        trace == run_orders(book, opposite_book, side, orders)
        last == IF trace = <<>>
                THEN [book |-> book, opp |-> opposite_book, iters |-> 0]
                ELSE trace[Len(trace)]
    IN  [bids |-> IF side = "Bid" THEN last.book ELSE last.opp,
         asks |-> IF side = "Bid" THEN last.opp ELSE last.book,
         steps |-> trace]

\* self.update_orders(side, vec![(price, lots_remaining)])
process_book_update(side, p, lots_remaining) ==
    /\ Idle
    /\ LET after == book_after(bids, asks, side, <<(<<p, lots_remaining>>)>>)
       IN  /\ bids' = after.bids
           /\ asks' = after.asks
           /\ steps' = after.steps
    /\ call' = [op |-> "process_book_update", side |-> side,
                orders |-> <<(<<p, lots_remaining>>)>>]
    /\ pre' = [bids |-> bids, asks |-> asks]
    /\ ret' = <<>>
    /\ UNCHANGED <<raw_base_units_per_base_lot, quote_units_per_raw_base_unit_per_tick>>
    /\ UNCHANGED <<simVars, parseVars, auxVars>>

process_trade(side, p, lots_remaining) ==
    /\ Idle
    /\ LET after == book_after(bids, asks, side, <<(<<p, lots_remaining>>)>>)
       IN  /\ bids' = after.bids
           /\ asks' = after.asks
           /\ steps' = after.steps
    /\ call' = [op |-> "process_trade", side |-> side,
                orders |-> <<(<<p, lots_remaining>>)>>]
    /\ pre' = [bids |-> bids, asks |-> asks]
    /\ ret' = <<>>
    /\ UNCHANGED <<raw_base_units_per_base_lot, quote_units_per_raw_base_unit_per_tick>>
    /\ UNCHANGED <<simVars, parseVars, auxVars>>

\* the call returns: its argument and its result go out of scope
Return ==
    /\ ~Idle
    /\ call' = NoCall
    /\ pre' = [bids |-> bids, asks |-> asks]
    /\ steps' = <<>>
    /\ ret' = <<>>
    /\ UNCHANGED <<bids, asks, raw_base_units_per_base_lot,
                   quote_units_per_raw_base_unit_per_tick>>
    /\ UNCHANGED <<simVars, parseVars, auxVars>>

\* ------------------------------------------------------ u64 arithmetic
\* The amounts of lots and atoms are u64.  An amount is kept whole, as its
\* four limbs of 16 bits, least significant first, so that the arithmetic is
\* that of the 64 bits: `*` on u64 panics when the product reaches 2^64 and
\* overflow checks are compiled in, and wraps modulo 2^64 when they are not.
\* The lot sizes of the modelled markets and the sizes of the levels of the
\* simulated ladders stay below 2^15, the budgets of the simulator below
\* 2^31, and they are kept as integers; the prices of the ladders are whole
\* u64.
MaxAtoms == 7
MaxLotSize == 3

Limb == 2^16
\* the u64 high * 2^48 + low, for high and low below 2^16
u64(high, low) == <<low, 0, 0, high>>
\* amounts: the small ones, those from 2^63 up, and those of the top limb full
Words == {u64(high, low) : high \in {0, 2^15, Limb - 1}, low \in 0..MaxAtoms}
LotSizes == 1..MaxLotSize

\* MarketMetadata::default(), and the metadata of a market with lot sizes
DefaultMetadata == [base_lot_size |-> 0, quote_lot_size |-> 0]

Value(v) == [status |-> "Ok", value |-> v]
MarketNotFound == [status |-> "Err", value |-> u64(0, 0)]
Panicked == [status |-> "panic", value |-> u64(0, 0)]

\* the remainder of the limbs of a from the i-th up, divided by b
RECURSIVE remainder(_, _, _)
remainder(a, b, i) == IF i > Len(a) THEN 0 ELSE (remainder(a, b, i + 1) * Limb + a[i]) % b
\* u64 / u64: the quotient rounded toward zero, a panic when dividing by zero
Div(a, b) ==
    IF b = 0 THEN {Panicked}
    ELSE {Value([i \in 1..Len(a) |-> (remainder(a, b, i + 1) * Limb + a[i]) \div b])}
\* the carry of a * b into the i-th limb
RECURSIVE carry(_, _, _)
carry(a, b, i) == IF i = 1 THEN 0 ELSE (a[i - 1] * b + carry(a, b, i - 1)) \div Limb
\* u64 * u64: the product if it is below 2^64; otherwise a panic (overflow
\* checks on) or the product modulo 2^64 (overflow checks off)
mul(a, b, overflow_checks) ==
    IF carry(a, b, Len(a) + 1) # 0 /\ overflow_checks THEN Panicked
    ELSE Value([i \in 1..Len(a) |-> (a[i] * b + carry(a, b, i)) % Limb])
\* the results of u64 * u64 over the builds
Mul(a, b) == {mul(a, b, overflow_checks) : overflow_checks \in BOOLEAN}
\* the carry of a + b into the i-th limb
RECURSIVE carry_add(_, _, _)
carry_add(a, b, i) ==
    IF i = 1 THEN 0 ELSE (a[i - 1] + b[i - 1] + carry_add(a, b, i - 1)) \div Limb
\* u64 + u64: the sum if it is below 2^64; otherwise a panic (overflow checks
\* on) or the sum modulo 2^64 (overflow checks off)
add(a, b, overflow_checks) ==
    IF carry_add(a, b, Len(a) + 1) # 0 /\ overflow_checks THEN Panicked
    ELSE Value([i \in 1..Len(a) |-> (a[i] + b[i] + carry_add(a, b, i)) % Limb])
\* the integers below 2^31, where the arithmetic of the integers is that of
\* u64: the u64 of an integer, whether a u64 is one of them, and the integer
\* of one that is
as_u64(n) == <<n % Limb, n \div Limb, 0, 0>>
small(a) == a[2] < 2^15 /\ a[3] = 0 /\ a[4] = 0
to_int(a) == a[1] + a[2] * Limb
\* u64 / u64 of a dividend n below 2^31 by a divisor d that is not 0: a
\* divisor of 2^31 or more is greater than n
quotient(n, d) == IF small(d) THEN n \div to_int(d) ELSE 0

\* ------------------------------------------------------ MarketSimulator
Min(a, b) == IF a <= b THEN a ELSE b

\* prices in ticks: the small ones, and 2^63
Ticks == {u64(0, tick) : tick \in 1..MaxTick}
\* with them the prices at which the walks can fault: 0 ticks, by which
\* sell_quote divides, and 2^63 ticks, whose product with two lots does not
\* fit a u64
WideTicks == Ticks \cup {u64(0, 0), u64(2^15, 0)}
LadderOrders(prices) == [price_in_ticks : prices, size_in_base_lots : 1..MaxLots]
LevelLists(prices, n) == UNION {[1..k -> LadderOrders(prices)] : k \in 0..n}
LaddersOf(prices, n) ==
    UNION {[bids : [1..k -> LadderOrders(prices)], asks : LevelLists(prices, n - k)] :
              k \in 0..n}
\* the ladders of at most MaxLevels levels, both sides together; those with
\* a level at 0 or at 2^63 ticks have one level fewer
Ladders == LaddersOf(Ticks, MaxLevels) \cup LaddersOf(WideTicks, MaxLevels - 1)
Budgets == 0..MaxBudget

\* a walk that takes all the budget affords, whatever the level holds
RECURSIVE sell_quote_loop_uncapped(_, _, _)
sell_quote_loop_uncapped(levels, remaining_quote_lots, base_lots) ==
    IF levels = <<>> \/ remaining_quote_lots = 0
    THEN [panicked |-> FALSE, remaining_quote_lots |-> remaining_quote_lots,
          base_lots |-> base_lots, visits |-> <<>>]
    ELSE LET ask == Head(levels)
         IN  IF ask.price_in_ticks = u64(0, 0)
             THEN [panicked |-> TRUE, remaining_quote_lots |-> remaining_quote_lots,
                   base_lots |-> base_lots, visits |-> <<>>]
             ELSE LET amount_lots_to_buy ==
                          quotient(remaining_quote_lots, ask.price_in_ticks)
                      left == IF amount_lots_to_buy = 0 THEN remaining_quote_lots
                              ELSE remaining_quote_lots
                                   - amount_lots_to_buy * to_int(ask.price_in_ticks)
                      r == sell_quote_loop_uncapped(Tail(levels), left,
                                                    base_lots + amount_lots_to_buy)
                 IN  [r EXCEPT !.visits =
                          <<[level |-> ask, before |-> remaining_quote_lots,
                             taken |-> amount_lots_to_buy, after |-> left]>> \o @]
\* `for ask in self.asks.iter()` of sell_quote.  visits: one record per level the
\* loop body ran on.  A level of price 0 reached with budget left divides by
\* zero: the call panics and returns nothing.  The budgets are below 2^31.
\* A level gives lots only when its price is at most the budget left, and
\* what it gives costs at most that budget: the product and the sums of
\* sell_quote are below 2^31, where the integers compute what u64 does.
RECURSIVE sell_quote_loop(_, _, _)
sell_quote_loop(levels, remaining_quote_lots, base_lots) ==
    IF levels = <<>> \/ remaining_quote_lots = 0
    THEN [panicked |-> FALSE, remaining_quote_lots |-> remaining_quote_lots,
          base_lots |-> base_lots, visits |-> <<>>]
    ELSE LET ask == Head(levels)
         IN  IF ask.price_in_ticks = u64(0, 0)
             THEN [panicked |-> TRUE, remaining_quote_lots |-> remaining_quote_lots,
                   base_lots |-> base_lots, visits |-> <<>>]
             ELSE LET max_base_lots_you_can_buy ==
                          quotient(remaining_quote_lots, ask.price_in_ticks)
                      amount_lots_to_buy ==
                          Min(max_base_lots_you_can_buy, ask.size_in_base_lots)
                      left == IF amount_lots_to_buy = 0 THEN remaining_quote_lots
                              ELSE remaining_quote_lots
                                   - amount_lots_to_buy * to_int(ask.price_in_ticks)
                      r == sell_quote_loop(Tail(levels), left, base_lots + amount_lots_to_buy)
                 IN  [r EXCEPT !.visits =
                          <<[level |-> ask, before |-> remaining_quote_lots,
                             taken |-> amount_lots_to_buy, after |-> left]>> \o @]

\* a walk that reports the whole budget as spent
sell_quote_reporting_budget(l, num_lots_quote) ==
    LET r == sell_quote_loop(l.asks, num_lots_quote, 0)
    IN  [panicked |-> r.panicked,
         base_lots_filled |-> IF r.panicked THEN 0 ELSE r.base_lots,
         quote_lots_filled |-> IF r.panicked THEN u64(0, 0) ELSE as_u64(num_lots_quote),
         visits |-> r.visits]
\* quote_lots_filled, a u64 like that of sell_base, is at most the budget
sell_quote(l, num_lots_quote) ==
    LET r == sell_quote_loop(l.asks, num_lots_quote, 0)
    IN  [panicked |-> r.panicked,
         base_lots_filled |-> IF r.panicked THEN 0 ELSE r.base_lots,
         quote_lots_filled |-> IF r.panicked THEN u64(0, 0)
                               ELSE as_u64(num_lots_quote - r.remaining_quote_lots),
         visits |-> r.visits]

\* `for bid in self.bids.iter()` of sell_base.  `quote_lots += lots_to_fill *
\* bid.price_in_ticks` is a u64 product and a u64 sum: either may reach 2^64,
\* and then the call panics (overflow checks on) or goes on with the wrapped
\* value (overflow checks off).
RECURSIVE sell_base_loop(_, _, _, _)
sell_base_loop(levels, remaining_base_lots, quote_lots, overflow_checks) ==
    IF levels = <<>> \/ remaining_base_lots = 0
    THEN [panicked |-> FALSE, remaining_base_lots |-> remaining_base_lots,
          quote_lots |-> quote_lots, visits |-> <<>>]
    ELSE LET bid == Head(levels)
             lots_to_fill == Min(remaining_base_lots, bid.size_in_base_lots)
             product == mul(bid.price_in_ticks, lots_to_fill, overflow_checks)
             sum == IF product = Panicked THEN Panicked
                    ELSE add(quote_lots, product.value, overflow_checks)
             left == remaining_base_lots - lots_to_fill
         IN  IF sum = Panicked
             THEN [panicked |-> TRUE, remaining_base_lots |-> remaining_base_lots,
                   quote_lots |-> quote_lots, visits |-> <<>>]
             ELSE LET r == sell_base_loop(Tail(levels), left, sum.value, overflow_checks)
                  IN  [r EXCEPT !.visits =
                           <<[level |-> bid, before |-> remaining_base_lots,
                              taken |-> lots_to_fill, after |-> left]>> \o @]

sell_base(l, num_lots_base, overflow_checks) ==
    LET r == sell_base_loop(l.bids, num_lots_base, u64(0, 0), overflow_checks)
    IN  [panicked |-> r.panicked,
         base_lots_filled |-> IF r.panicked THEN 0
                              ELSE num_lots_base - r.remaining_base_lots,
         quote_lots_filled |-> IF r.panicked THEN u64(0, 0) ELSE r.quote_lots,
         visits |-> r.visits]

\* a dispatch that routes each side to the other walk
simulate_market_sell_swapped(l, side, size_in_lots, overflow_checks) ==
    IF side = "Bid" THEN sell_base(l, size_in_lots, overflow_checks)
    ELSE sell_quote(l, size_in_lots)
simulate_market_sell(l, side, size_in_lots, overflow_checks) ==
    IF side = "Bid" THEN sell_quote(l, size_in_lots)
    ELSE sell_base(l, size_in_lots, overflow_checks)

EmptyLadder == [bids |-> <<>>, asks |-> <<>>]
NoResult == [panicked |-> FALSE, base_lots_filled |-> 0, quote_lots_filled |-> u64(0, 0),
             visits |-> <<>>]
NoSim == [op |-> "none", side |-> "Bid", size |-> 0, result |-> NoResult]
SimIdle == sim.op = "none"

CallSellQuote(n) ==
    /\ SimIdle
    /\ sim' = [op |-> "sell_quote", side |-> "Bid", size |-> n,
               result |-> sell_quote(ladder, n)]
    /\ UNCHANGED <<ladder, bookVars, parseVars, auxVars>>

\* the build, with or without overflow checks, is either
CallSellBase(n) ==
    /\ SimIdle
    /\ \E overflow_checks \in BOOLEAN :
          sim' = [op |-> "sell_base", side |-> "Ask", size |-> n,
                  result |-> sell_base(ladder, n, overflow_checks)]
    /\ UNCHANGED <<ladder, bookVars, parseVars, auxVars>>

CallSimulateMarketSell(side, n) ==
    /\ SimIdle
    /\ \E overflow_checks \in BOOLEAN :
          sim' = [op |-> "simulate_market_sell", side |-> side, size |-> n,
                  result |-> simulate_market_sell(ladder, side, n, overflow_checks)]
    /\ UNCHANGED <<ladder, bookVars, parseVars, auxVars>>

\* the call returns (or unwinds): its result goes out of scope
SimReturn ==
    /\ ~SimIdle
    /\ sim' = NoSim
    /\ UNCHANGED <<ladder, bookVars, parseVars, auxVars>>

\* ------------------------------------------------------ event translation
\* Option<T>: None is the empty sequence, Some(x) the sequence of x alone
None == <<>>
Some(x) == <<x>>
unwrap_or(o, d) == IF o = None THEN d ELSE o[1]

LoadedMarket == "market"
MarketKeys == {"market", "unlisted"}
\* enum PhoenixMarketEvent, and the tag-only enum MarketEventWrapper
PhoenixMarketEventTags ==
    {"Uninitialized", "Header", "Fill", "Place", "Reduce", "Evict", "FillSummary",
     "Fee", "TimeInForce", "ExpiredOrder"}
MarketEventWrapperTags ==
    {"Uninitialized", "Header", "Fill", "Place", "Reduce", "Evict", "FillSummary"}
\* a tag byte that no variant of PhoenixMarketEvent carries
Unassigned == "Unassigned"

\* an order sequence number msb * 2^63 + low, a u64
OrderSequenceNumbers == [msb : {0, 1}, low : {1}]
\* Side::from_order_sequence_number: leading_zeros() = 0 is a bid
from_order_sequence_number(order_sequence_number) ==
    IF order_sequence_number.msb = 1 THEN "Bid" ELSE "Ask"
Remaining == {0, 1}
\* amounts of lots: 1, whose products by the lot sizes fit a u64, and 2^63,
\* whose double does not
LotAmounts == {u64(0, 1), u64(2^15, 0)}

\* the MarketMetadata of the market account at a key, as read off the chain:
\* the lot sizes of the market the clients are constructed on, and those of
\* another market
get_market_metadata(market_key) ==
    IF market_key = LoadedMarket
    THEN [base_lot_size |-> MaxLotSize - 1, quote_lot_size |-> MaxLotSize]
    ELSE [base_lot_size |-> 1, quote_lot_size |-> 1]

\* a sub-record as it decodes; the fields a variant does not carry hold a
\* fixed filler that no arm reads
SubRecord(tag, osn, remaining) ==
    [tag |-> tag, maker_id |-> "maker", order_sequence_number |-> osn,
     base_lots_remaining |-> remaining,
     total_base_lots_filled |-> u64(0, 1), total_quote_lots_filled |-> u64(0, 1),
     total_fee_in_quote_lots |-> u64(0, 1), fees_collected_in_quote_lots |-> u64(0, 1)]
Plain(tag) == SubRecord(tag, [msb |-> 0, low |-> 1], 0)
\* the sub-records a transaction is drawn from: every Fill and Reduce, a
\* Place, a batch summary of small totals, and a variant left to the
\* fallthrough arm
SubRecords ==
    {SubRecord("Fill", osn, rem) : osn \in OrderSequenceNumbers, rem \in Remaining}
    \cup {SubRecord("Reduce", [msb |-> 0, low |-> 1], rem) : rem \in Remaining}
    \cup {Plain(tag) : tag \in {"Place", "FillSummary", "Header"}}
\* the sub-records a short transaction is drawn from: a batch summary with
\* each of its totals large in turn, the fees, a Fill before them, an Evict,
\* an expired order, and a byte that is no variant
ShortSubRecords ==
    {[Plain("FillSummary") EXCEPT !.total_base_lots_filled = lots[1],
                                  !.total_quote_lots_filled = lots[2],
                                  !.total_fee_in_quote_lots = lots[3]] :
        lots \in {l \in [1..3 -> LotAmounts] :
                     \A m, n \in 1..3 : l[m] = u64(0, 1) \/ l[n] = u64(0, 1) \/ m = n}}
    \cup {[Plain("Fee") EXCEPT !.fees_collected_in_quote_lots = fees] :
             fees \in LotAmounts}
    \cup {SubRecord("Fill", [msb |-> 1, low |-> 1], 0)}
    \cup {Plain(tag) : tag \in {"Evict", "ExpiredOrder", Unassigned}}

\* the frame of a raw record: what its first AUDIT_LOG_HEADER_LEN bytes
\* decode to ("Short": there are fewer bytes; "Err": try_from_slice fails),
\* the header fields, and how many sub-records follow
HeaderFrames(s, t) ==
    [header : {"Header"}, sequence_number : {s}, signer : {"trader"},
     total_events : 0..t]
HeaderlessFrames ==
    [header : {"Short", "Err"}, sequence_number : {0}, signer : {"nobody"},
     total_events : {0}]
\* the frames of at most n raw records holding at most t sub-records; the
\* next header carries sequence number s, and each header after it step more
RECURSIVE FrameLists(_, _, _, _)
FrameLists(n, t, s, step) ==
    IF n = 0 THEN {<<>>}
    ELSE {<<>>}
         \cup UNION {{<<f>> \o rest :
                         rest \in FrameLists(n - 1, t - f.total_events, s + step, step)} :
                        f \in HeaderFrames(s, t)}
         \cup UNION {{<<f>> \o rest : rest \in FrameLists(n - 1, t, s, step)} :
                        f \in HeaderlessFrames}
RECURSIVE SubRecordCount(_)
SubRecordCount(frames) ==
    IF frames = <<>> THEN 0 ELSE Head(frames).total_events + SubRecordCount(Tail(frames))
\* events: Vec<Vec<u8>>: each frame with its share of the sub-records, which
\* carry as index their position in the raw record
RECURSIVE RawRecords(_, _)
RawRecords(frames, subs) ==
    IF frames = <<>> THEN <<>>
    ELSE LET k == Head(frames).total_events
         IN  <<[header |-> Head(frames).header,
                sequence_number |-> Head(frames).sequence_number,
                signer |-> Head(frames).signer,
                total_events |-> k,
                events |-> [j \in 1..k |->
                              [tag |-> subs[j].tag, index |-> j - 1,
                               maker_id |-> subs[j].maker_id,
                               order_sequence_number |-> subs[j].order_sequence_number,
                               base_lots_remaining |-> subs[j].base_lots_remaining,
                               total_base_lots_filled |-> subs[j].total_base_lots_filled,
                               total_quote_lots_filled |->
                                   subs[j].total_quote_lots_filled,
                               total_fee_in_quote_lots |->
                                   subs[j].total_fee_in_quote_lots,
                               fees_collected_in_quote_lots |->
                                   subs[j].fees_collected_in_quote_lots]]]>>
             \o RawRecords(Tail(frames), SubSeq(subs, k + 1, Len(subs)))
\* the raw records of a transaction of at most t sub-records: they split
\* one batch (one sequence number) or hold consecutive batches
Transactions(t) ==
    FrameLists(MaxRecords, t, 1, 0) \cup FrameLists(MaxRecords, t, 1, 1)
\* the raw records of a short transaction
ShortTransactions == FrameLists(MaxRecords - 1, MaxSubRecords - 1, 1, 0)

PhoenixEvent(header, e, details) ==
    [sequence_number |-> header.sequence_number, signer |-> header.signer,
     event_index |-> e.index, details |-> details]
\* a Fill that counts as full while lots remain
FillDetailsFullWhileRemaining(header, e) ==
    [kind |-> "Fill", order_sequence_number |-> e.order_sequence_number,
     maker |-> e.maker_id, taker |-> header.signer,
     base_lots_remaining |-> e.base_lots_remaining,
     side_filled |-> from_order_sequence_number(e.order_sequence_number),
     is_full_fill |-> (e.base_lots_remaining # 0)]
FillDetails(header, e) ==
    [kind |-> "Fill", order_sequence_number |-> e.order_sequence_number,
     maker |-> e.maker_id, taker |-> header.signer,
     base_lots_remaining |-> e.base_lots_remaining,
     side_filled |-> from_order_sequence_number(e.order_sequence_number),
     is_full_fill |-> (e.base_lots_remaining = 0)]
ReduceDetails(header, e) ==
    [kind |-> "Reduce", order_sequence_number |-> e.order_sequence_number,
     maker |-> header.signer, base_lots_remaining |-> e.base_lots_remaining,
     is_full_cancel |-> (e.base_lots_remaining = 0)]

\* how a call, a loop or an arm ends: status is "Some", "None" (the `?` and
\* `return None`) or "panic"; from: for each event of market_events, the
\* sub-record it was pushed for
Returned(status) == [status |-> status, market_events |-> <<>>, from |-> <<>>]
\* market_events.push(PhoenixEvent {..})
Pushed(event) == [status |-> "Some", market_events |-> <<event>>, from |-> <<>>]

\* one arm of `match phoenix_event`: the event it pushes, or the panic of a
\* product that overflows in a build with overflow checks
phoenix_event_arm(market, header, e, trade_direction, overflow_checks) ==
    CASE e.tag = "Fill" -> Pushed(PhoenixEvent(header, e, FillDetails(header, e)))
      [] e.tag = "Reduce" -> Pushed(PhoenixEvent(header, e, ReduceDetails(header, e)))
      [] e.tag = "Place" ->
            Pushed(PhoenixEvent(header, e,
                      [kind |-> "Place",
                       order_sequence_number |-> e.order_sequence_number,
                       maker |-> header.signer]))
      [] e.tag = "Evict" ->
            Pushed(PhoenixEvent(header, e,
                      [kind |-> "Evict",
                       order_sequence_number |-> e.order_sequence_number,
                       maker |-> e.maker_id]))
      [] e.tag = "FillSummary" ->
            LET total_base_filled ==
                    mul(e.total_base_lots_filled, market.base_lot_size, overflow_checks)
                total_quote_filled_including_fees ==
                    mul(e.total_quote_lots_filled, market.quote_lot_size, overflow_checks)
                total_quote_fees ==
                    mul(e.total_fee_in_quote_lots, market.quote_lot_size, overflow_checks)
            IN  IF Panicked \in {total_base_filled, total_quote_filled_including_fees,
                                 total_quote_fees}
                THEN Returned("panic")
                ELSE Pushed(PhoenixEvent(header, e,
                               [kind |-> "FillSummary",
                                total_base_filled |-> total_base_filled.value,
                                total_quote_filled_including_fees |->
                                    total_quote_filled_including_fees.value,
                                total_quote_fees |-> total_quote_fees.value,
                                trade_direction |-> unwrap_or(trade_direction, 0)]))
      [] e.tag = "Fee" ->
            LET fees == mul(e.fees_collected_in_quote_lots, market.quote_lot_size,
                            overflow_checks)
            IN  IF fees = Panicked THEN Returned("panic")
                ELSE Pushed(PhoenixEvent(header, e,
                               [kind |-> "Fee", fees |-> fees.value]))
      [] e.tag = "TimeInForce" ->
            Pushed(PhoenixEvent(header, e,
                      [kind |-> "TimeInForce",
                       order_sequence_number |-> e.order_sequence_number]))
      [] e.tag = "ExpiredOrder" ->
            Pushed(PhoenixEvent(header, e,
                      [kind |-> "Reduce",
                       order_sequence_number |-> e.order_sequence_number,
                       maker |-> e.maker_id, base_lots_remaining |-> 0,
                       is_full_cancel |-> TRUE]))
      [] OTHER -> Returned("Some")

\* `for phoenix_event in phoenix_events`, from the j-th on.  from: for each
\* pushed event, the position of the sub-record it was pushed for.
RECURSIVE phoenix_events_loop(_, _, _, _, _, _)
phoenix_events_loop(market, header, phoenix_events, j, trade_direction, overflow_checks) ==
    IF j > Len(phoenix_events) THEN Returned("Some")
    ELSE LET e == phoenix_events[j]
             side_filled == from_order_sequence_number(e.order_sequence_number)
             arm == phoenix_event_arm(market, header, e, trade_direction,
                                      overflow_checks)
             direction ==
                 IF e.tag = "Fill" /\ trade_direction = None
                 THEN IF side_filled = "Bid" THEN Some(-1) ELSE Some(1)
                 ELSE trade_direction
         IN  IF arm.status # "Some" THEN arm
             ELSE LET r == phoenix_events_loop(market, header, phoenix_events, j + 1,
                                               direction, overflow_checks)
                  IN  IF r.status # "Some" THEN r
                      ELSE [status |-> "Some",
                            market_events |-> arm.market_events \o r.market_events,
                            from |-> (IF arm.market_events = <<>> THEN <<>> ELSE <<j>>)
                                       \o r.from]

\* Vec::<PhoenixMarketEvent>::try_from_slice over total_events and the bytes
\* after the header: Ok when they hold exactly total_events variants
body_decodes(event) ==
    /\ event.total_events = Len(event.events)
    /\ \A j \in 1..Len(event.events) : event.events[j].tag \in PhoenixMarketEventTags

\* `for event in events.iter()` of parse_phoenix_events, from the i-th on.
\* from: for each event of market_events, <<raw record, sub-record>> it was
\* pushed for.
RECURSIVE parse_phoenix_events_loop(_, _, _, _)
parse_phoenix_events_loop(market, events, i, overflow_checks) ==
    IF i > Len(events) THEN Returned("Some")
    ELSE LET event == events[i]
         IN  IF event.header = "Short" THEN Returned("panic")
             ELSE IF event.header = "Err" THEN Returned("None")
             ELSE IF event.header # "Header" THEN Returned("panic")
             ELSE IF ~body_decodes(event) THEN Returned("None")
             ELSE LET here == phoenix_events_loop(market, event, event.events, 1, None,
                                                  overflow_checks)
                  IN  IF here.status # "Some" THEN here
                      ELSE LET rest == parse_phoenix_events_loop(market, events, i + 1,
                                                                 overflow_checks)
                           IN  IF rest.status # "Some" THEN rest
                               ELSE [status |-> "Some",
                                     market_events |->
                                         here.market_events \o rest.market_events,
                                     from |-> [k \in 1..Len(here.from) |->
                                                  <<i, here.from[k]>>] \o rest.from]

\* loaded: the keys of self.markets; market: the metadata under market_key
parse_phoenix_events(loaded, market, market_key, events, overflow_checks) ==
    IF market_key \notin loaded THEN Returned("None")
    ELSE parse_phoenix_events_loop(market, events, 1, overflow_checks)

\* the bytes a variant of MarketEvent takes on the wire: the tag, index: u16
\* and the fields the arm destructures (a Pubkey 32, a u128 16, a u64 8)
MarketEventLen(tag) ==
    CASE tag = "Fill" -> 1 + 2 + 32 + 8 + 8 + 8 + 8
      [] tag = "Reduce" -> 1 + 2 + 8 + 8 + 8 + 8
      [] tag = "Place" -> 1 + 2 + 8 + 16 + 8 + 8
      [] tag = "Evict" -> 1 + 2 + 32 + 8 + 8 + 8
      [] tag = "FillSummary" -> 1 + 2 + 16 + 8 + 8 + 8
\* `let size = ..;` of each arm: the bytes it hands to the decoder
event_size(tag) ==
    CASE tag = "Fill" -> 67
      [] tag = "Reduce" -> 35
      [] tag = "Place" -> 43
      [] tag = "Evict" -> 58
      [] tag = "FillSummary" -> 43

\* one arm of `match MarketEventWrapper::try_from_slice(..)`.  It decodes
\* event[offset..offset + size], which holds the variant when size is the
\* variant's length and is an error otherwise, and pushes the event.
wrapper_event_arm(meta, header, e, overflow_checks) ==
    IF e.tag \in {"Uninitialized", "Header"} THEN Returned("panic")
    ELSE IF event_size(e.tag) # MarketEventLen(e.tag) THEN Returned("None")
    ELSE CASE e.tag = "Fill" -> Pushed(PhoenixEvent(header, e, FillDetails(header, e)))
           [] e.tag = "Reduce" ->
                 Pushed(PhoenixEvent(header, e, ReduceDetails(header, e)))
           [] e.tag = "Place" ->
                 Pushed(PhoenixEvent(header, e,
                           [kind |-> "Place",
                            order_sequence_number |-> e.order_sequence_number,
                            maker |-> header.signer]))
           [] e.tag = "Evict" ->
                 Pushed(PhoenixEvent(header, e,
                           [kind |-> "Evict",
                            order_sequence_number |-> e.order_sequence_number,
                            maker |-> e.maker_id]))
           [] e.tag = "FillSummary" ->
                 LET total_base_filled ==
                         mul(e.total_base_lots_filled, meta.base_lot_size,
                             overflow_checks)
                     total_quote_filled_including_fees ==
                         mul(e.total_quote_lots_filled, meta.quote_lot_size,
                             overflow_checks)
                     total_quote_fees ==
                         mul(e.total_fee_in_quote_lots, meta.quote_lot_size,
                             overflow_checks)
                 IN  IF Panicked \in {total_base_filled,
                                      total_quote_filled_including_fees,
                                      total_quote_fees}
                     THEN Returned("panic")
                     ELSE Pushed(PhoenixEvent(header, e,
                                    [kind |-> "FillSummary",
                                     total_base_filled |-> total_base_filled.value,
                                     total_quote_filled_including_fees |->
                                         total_quote_filled_including_fees.value,
                                     total_quote_fees |-> total_quote_fees.value]))

\* `while offset < num_bytes` of parse_wrapper_events, from the j-th sub-record
RECURSIVE wrapper_events_loop(_, _, _, _, _)
wrapper_events_loop(meta, header, wrapped, j, overflow_checks) ==
    IF j > Len(wrapped) THEN Returned("Some")
    ELSE LET e == wrapped[j]
         IN  IF e.tag \notin MarketEventWrapperTags THEN Returned("None")
             ELSE LET arm == wrapper_event_arm(meta, header, e, overflow_checks)
                  IN  IF arm.status # "Some" THEN arm
                      ELSE LET r == wrapper_events_loop(meta, header, wrapped, j + 1,
                                                        overflow_checks)
                           IN  IF r.status # "Some" THEN r
                               ELSE [status |-> "Some",
                                     market_events |->
                                         arm.market_events \o r.market_events,
                                     from |-> <<j>> \o r.from]

RECURSIVE parse_wrapper_events_loop(_, _, _, _)
parse_wrapper_events_loop(meta, events, i, overflow_checks) ==
    IF i > Len(events) THEN Returned("Some")
    ELSE LET event == events[i]
         IN  IF event.header = "Short" THEN Returned("panic")
             ELSE IF event.header = "Err" THEN Returned("None")
             ELSE IF event.header # "Header" THEN Returned("panic")
             ELSE LET here == wrapper_events_loop(meta, event, event.events, 1,
                                                  overflow_checks)
                  IN  IF here.status # "Some" THEN here
                      ELSE LET rest == parse_wrapper_events_loop(meta, events, i + 1,
                                                                 overflow_checks)
                           IN  IF rest.status # "Some" THEN rest
                               ELSE [status |-> "Some",
                                     market_events |->
                                         here.market_events \o rest.market_events,
                                     from |-> [k \in 1..Len(here.from) |->
                                                  <<i, here.from[k]>>] \o rest.from]

\* client: the SDKClient; meta is get_active_market_metadata()
parse_wrapper_events(client, events, overflow_checks) ==
    parse_wrapper_events_loop(client.markets[client.active_market_key], events, 1,
                              overflow_checks)

\* no SDKClient is constructed; SDKClient::new(market_key, ..): the client
\* holds the metadata of that market, which is its active market
NoClient == [markets |-> <<>>, active_market_key |-> LoadedMarket]
new(market_key) ==
    [markets |-> [key \in {market_key} |-> get_market_metadata(key)],
     active_market_key |-> market_key]

NoParse == [op |-> "none", market_key |-> LoadedMarket, events |-> <<>>,
            result |-> Returned("Some")]
ParseIdle == parse.op = "none"

\* the call runs in a build with overflow checks or in one without
CallParsePhoenixEvents(market_key, events) ==
    /\ ParseIdle
    /\ \E overflow_checks \in BOOLEAN :
          parse' = [op |-> "parse_phoenix_events", market_key |-> market_key,
                    events |-> events,
                    result |-> parse_phoenix_events(markets, metadata, market_key,
                                                    events, overflow_checks)]
    /\ UNCHANGED <<markets, sdk_client, bookVars, simVars, auxVars>>

CallParseWrapperEvents(events) ==
    /\ ParseIdle
    /\ \E overflow_checks \in BOOLEAN :
          parse' = [op |-> "parse_wrapper_events",
                    market_key |-> sdk_client.active_market_key, events |-> events,
                    result |-> parse_wrapper_events(sdk_client, events,
                                                    overflow_checks)]
    /\ UNCHANGED <<markets, sdk_client, bookVars, simVars, auxVars>>

\* the call returns (or unwinds): the Vec it built goes to the caller
ParseReturn ==
    /\ ~ParseIdle
    /\ parse' = NoParse
    /\ UNCHANGED <<markets, sdk_client, bookVars, simVars, auxVars>>

\* SDKClient::add_market: the metadata of the market account goes into
\* self.markets under market_key
add_market(market_key) ==
    /\ ParseIdle
    /\ sdk_client # NoClient
    /\ sdk_client' =
          [sdk_client EXCEPT
              !.markets = [key \in DOMAIN sdk_client.markets \cup {market_key} |->
                              IF key = market_key THEN get_market_metadata(market_key)
                              ELSE sdk_client.markets[key]]]
    /\ UNCHANGED <<markets, parse, bookVars, simVars, auxVars>>

\* SDKClient::change_active_market: Ok(()) for a loaded market, "Market not
\* found" and no change otherwise
change_active_market(market) ==
    /\ ParseIdle
    /\ sdk_client # NoClient
    /\ sdk_client' =
          IF market \in DOMAIN sdk_client.markets
          THEN [sdk_client EXCEPT !.active_market_key = market]
          ELSE sdk_client
    /\ UNCHANGED <<markets, parse, bookVars, simVars, auxVars>>

\* ------------------------------------------------------- packet decoder
\* (phoenix-sdk-core/src/packet_decoder.rs).  A packet is a slice of bytes:
\* one tag byte, then the borsh encoding of the packet's fields in the order
\* the struct declares them.
\* sampled integers are h * 256 + l with h, l \in 0..MaxDigit
MaxDigit == 1

Amounts == {256 * h + l : h, l \in 0..MaxDigit}
Lots == 1..MaxDigit
ClientOrderIds == {65536 * d : d \in 1..MaxDigit}
OptionAmounts == {None} \cup {Some(a) : a \in 1..MaxDigit}
SelfTradeBehaviors == {"Abort", "CancelProvide", "DecrementTake"}

\* the variants of the enums in declaration order: borsh writes the index
Variants(type) ==
    CASE type = "OrderPacketEnum" -> <<"PostOnly", "Limit">>
      [] type = "Side" -> <<"Bid", "Ask">>
      [] type = "SelfTradeBehavior" -> <<"Abort", "CancelProvide", "DecrementTake">>
      [] type = "bool" -> <<FALSE, TRUE>>

\* the width in bytes of the fixed-width integers
Width(type) == IF type = "u64" THEN 8 ELSE 16

Field(name, type) == [name |-> name, type |-> type]

DeprecatedPostOnlyPacket ==
    << Field("side", "Side"), Field("price_in_ticks", "u64"),
       Field("num_base_lots", "u64"), Field("client_order_id", "u128"),
       Field("reject_post_only", "bool"),
       Field("use_only_deposited_funds", "bool") >>

PostOnlyPacket ==
    << Field("side", "Side"), Field("price_in_ticks", "u64"),
       Field("num_base_lots", "u64"), Field("client_order_id", "u128"),
       Field("reject_post_only", "bool"),
       Field("use_only_deposited_funds", "bool"),
       Field("last_valid_slot", "Option<u64>"),
       Field("last_valid_unix_timestamp_in_seconds", "Option<u64>") >>

DeprecatedLimitPacket ==
    << Field("side", "Side"), Field("price_in_ticks", "u64"),
       Field("num_base_lots", "u64"),
       Field("self_trade_behavior", "SelfTradeBehavior"),
       Field("match_limit", "Option<u64>"), Field("client_order_id", "u128"),
       Field("use_only_deposited_funds", "bool") >>

LimitPacket ==
    << Field("side", "Side"), Field("price_in_ticks", "u64"),
       Field("num_base_lots", "u64"),
       Field("self_trade_behavior", "SelfTradeBehavior"),
       Field("match_limit", "Option<u64>"), Field("client_order_id", "u128"),
       Field("use_only_deposited_funds", "bool"),
       Field("last_valid_slot", "Option<u64>"),
       Field("last_valid_unix_timestamp_in_seconds", "Option<u64>") >>

RECURSIVE from_le_bytes(_)
from_le_bytes(b) ==
    IF b = <<>> THEN 0 ELSE Head(b) + 256 * from_le_bytes(Tail(b))

RECURSIVE to_le_bytes(_, _)
to_le_bytes(v, n) ==
    IF n = 0 THEN <<>> ELSE <<v % 256>> \o to_le_bytes(v \div 256, n - 1)


\* BorshSerialize of one field
serialize_field(type, v) ==
    CASE type \in {"u64", "u128"} -> to_le_bytes(v, Width(type))
      [] type = "Option<u64>" ->
            IF v = None THEN <<0>> ELSE <<1>> \o to_le_bytes(v[1], Width("u64"))
      [] OTHER -> <<(CHOOSE i \in 1..Len(Variants(type)) : Variants(type)[i] = v) - 1>>

RECURSIVE serialize(_, _)
serialize(schema, packet) ==
    IF schema = <<>> THEN <<>>
    ELSE serialize_field(Head(schema).type, packet[Head(schema).name])
            \o serialize(Tail(schema), packet)

Read(value, rest) == [ok |-> TRUE, value |-> value, rest |-> rest]
Unread == [ok |-> FALSE, value |-> <<>>, rest |-> <<>>]

\* BorshDeserialize of one field: the value and the bytes left, or an
\* io::Error when the slice is too short or a tag is out of range
deserialize_field(type, b) ==
    CASE type \in {"u64", "u128"} ->
            IF Len(b) < Width(type) THEN Unread
            ELSE Read(from_le_bytes(SubSeq(b, 1, Width(type))), SubSeq(b, Width(type) + 1, Len(b)))
      [] type = "Option<u64>" ->
            IF b = <<>> THEN Unread
            ELSE IF Head(b) = 0 THEN Read(None, Tail(b))
            ELSE IF Head(b) = 1 THEN
                IF Len(b) < 1 + Width("u64") THEN Unread
                ELSE Read(Some(from_le_bytes(SubSeq(b, 2, 1 + Width("u64")))),
                          SubSeq(b, 2 + Width("u64"), Len(b)))
            ELSE Unread
      [] OTHER ->
            IF b = <<>> \/ Head(b) >= Len(Variants(type)) THEN Unread
            ELSE Read(Variants(type)[Head(b) + 1], Tail(b))

RECURSIVE deserialize(_, _)
deserialize(schema, b) ==
    IF schema = <<>> THEN Read(<<>>, b)
    ELSE LET field == deserialize_field(Head(schema).type, b)
         IN  IF ~field.ok THEN Unread
             ELSE LET fields == deserialize(Tail(schema), field.rest)
                  IN  IF ~fields.ok THEN Unread
                      ELSE Read((Head(schema).name :> field.value) @@ fields.value,
                                fields.rest)

\* BorshDeserialize::try_from_slice: every byte must be consumed
try_from_slice(schema, b) ==
    LET r == deserialize(schema, b)
    IN  IF r.ok /\ r.rest = <<>> THEN r ELSE Unread

Ok(packet) == [ok |-> TRUE, packet |-> packet, error |-> ""]
Err(error) == [ok |-> FALSE, packet |-> <<>>, error |-> error]

\* OrderPacketEnum::try_from_slice(&[*tag])
OrderPacketEnum(tag) == try_from_slice(<<Field("kind", "OrderPacketEnum")>>, <<tag>>)

\* a reading of the source that never falls back to the deprecated layout
decode_post_only_packet_data_current_only(bytes) ==
    IF bytes = <<>> THEN Err("Invalid packet")
    ELSE IF ~OrderPacketEnum(Head(bytes)).ok THEN Err("io")
    ELSE IF OrderPacketEnum(Head(bytes)).value["kind"] # "PostOnly"
         THEN Err("Invalid Post-Only packet")
    ELSE IF try_from_slice(PostOnlyPacket, Tail(bytes)).ok
         THEN Ok(try_from_slice(PostOnlyPacket, Tail(bytes)).value)
    ELSE Err("Invalid Post-Only packet")

decode_post_only_packet_data(bytes) ==
    IF bytes = <<>> THEN Err("Invalid packet")
    ELSE LET tag == Head(bytes)
             body == Tail(bytes)
         IN
         IF ~OrderPacketEnum(tag).ok THEN Err("io")
         ELSE IF OrderPacketEnum(tag).value["kind"] = "PostOnly" THEN
             LET packet == try_from_slice(PostOnlyPacket, body)
                 deprecated_packet_result ==
                     try_from_slice(DeprecatedPostOnlyPacket, body)
             IN  IF packet.ok THEN Ok(packet.value)
                 ELSE IF ~deprecated_packet_result.ok THEN Err("io")
                 ELSE LET deprecated_packet == deprecated_packet_result.value
                      IN  Ok([side |-> deprecated_packet["side"],
                              price_in_ticks |-> deprecated_packet["price_in_ticks"],
                              num_base_lots |-> deprecated_packet["num_base_lots"],
                              client_order_id |-> deprecated_packet["client_order_id"],
                              reject_post_only |-> deprecated_packet["reject_post_only"],
                              use_only_deposited_funds |->
                                  deprecated_packet["use_only_deposited_funds"],
                              last_valid_slot |-> None,
                              last_valid_unix_timestamp_in_seconds |-> None])
         ELSE Err("Invalid Post-Only packet")

decode_limit_packet_data(bytes) ==
    IF bytes = <<>> THEN Err("Invalid packet")
    ELSE LET tag == Head(bytes)
             body == Tail(bytes)
         IN
         IF ~OrderPacketEnum(tag).ok THEN Err("io")
         ELSE IF OrderPacketEnum(tag).value["kind"] = "Limit" THEN
             LET packet == try_from_slice(LimitPacket, body)
                 deprecated_packet_result ==
                     try_from_slice(DeprecatedLimitPacket, body)
             IN  IF packet.ok THEN Ok(packet.value)
                 ELSE IF ~deprecated_packet_result.ok THEN Err("io")
                 ELSE LET deprecated_packet == deprecated_packet_result.value
                      IN  Ok([side |-> deprecated_packet["side"],
                              price_in_ticks |-> deprecated_packet["price_in_ticks"],
                              self_trade_behavior |->
                                  deprecated_packet["self_trade_behavior"],
                              match_limit |-> deprecated_packet["match_limit"],
                              num_base_lots |-> deprecated_packet["num_base_lots"],
                              client_order_id |-> deprecated_packet["client_order_id"],
                              use_only_deposited_funds |->
                                  deprecated_packet["use_only_deposited_funds"],
                              last_valid_slot |-> None,
                              last_valid_unix_timestamp_in_seconds |-> None])
         ELSE Err("Invalid Post-Only packet")

NoDecode == [op |-> "none", bytes |-> <<>>, result |-> Err("")]

CallDecodePostOnly(bytes) ==
    /\ decode.op = "none"
    /\ decode' = [op |-> "decode_post_only_packet_data", bytes |-> bytes,
                  result |-> decode_post_only_packet_data(bytes)]
    /\ UNCHANGED <<metadata, conv, handling, pollVars, lockVars, bookVars, simVars, parseVars>>

CallDecodeLimit(bytes) ==
    /\ decode.op = "none"
    /\ decode' = [op |-> "decode_limit_packet_data", bytes |-> bytes,
                  result |-> decode_limit_packet_data(bytes)]
    /\ UNCHANGED <<metadata, conv, handling, pollVars, lockVars, bookVars, simVars, parseVars>>

\* the call returns its anyhow::Result to the caller
DecodeReturn ==
    /\ decode.op # "none"
    /\ decode' = NoDecode
    /\ UNCHANGED <<metadata, conv, handling, pollVars, lockVars, bookVars, simVars, parseVars>>

\* the packets a client of either version writes, as values
DeprecatedPostOnlyPackets ==
    [side : Sides, price_in_ticks : Amounts, num_base_lots : Lots,
     client_order_id : ClientOrderIds, reject_post_only : BOOLEAN,
     use_only_deposited_funds : BOOLEAN]
PostOnlyPackets ==
    [side : Sides, price_in_ticks : Amounts, num_base_lots : Lots,
     client_order_id : ClientOrderIds, reject_post_only : BOOLEAN,
     use_only_deposited_funds : BOOLEAN, last_valid_slot : OptionAmounts,
     last_valid_unix_timestamp_in_seconds : OptionAmounts]
DeprecatedLimitPackets ==
    [side : Sides, price_in_ticks : Amounts, num_base_lots : Lots,
     self_trade_behavior : SelfTradeBehaviors, match_limit : OptionAmounts,
     client_order_id : ClientOrderIds, use_only_deposited_funds : BOOLEAN]
LimitPackets ==
    [side : Sides, price_in_ticks : Amounts, num_base_lots : Lots,
     self_trade_behavior : SelfTradeBehaviors, match_limit : OptionAmounts,
     client_order_id : ClientOrderIds, use_only_deposited_funds : BOOLEAN,
     last_valid_slot : OptionAmounts,
     last_valid_unix_timestamp_in_seconds : OptionAmounts]

\* the tag bytes on the wire: the two packet kinds and one that names none
Tags == 0..2
\* what reaches the decoder: the encoding, one byte short, or one byte long
Damages == {"whole", "short", "long"}
Damage(body, damage) ==
    CASE damage = "whole" -> body
      [] damage = "short" -> SubSeq(body, 1, Len(body) - 1)
      [] damage = "long" -> body \o <<0>>
Packet(tag, schema, packet, damage) ==
    <<tag>> \o Damage(serialize(schema, packet), damage)

\* ------------------------------------------------------ unit conversion
\* (phoenix-sdk-core/src/sdk_client_core.rs, the integer atom/lot
\* conversions)
\* each conversion gives the set of results the builds of the code produce
base_atoms_to_base_lots(loaded, market, market_key, base_atoms) ==
    IF market_key \notin loaded THEN {MarketNotFound}
    ELSE Div(base_atoms, market.base_lot_size)

base_lots_to_base_atoms(loaded, market, market_key, base_lots) ==
    IF market_key \notin loaded THEN {MarketNotFound}
    ELSE Mul(base_lots, market.base_lot_size)

quote_atoms_to_quote_lots(loaded, market, market_key, quote_atoms) ==
    IF market_key \notin loaded THEN {MarketNotFound}
    ELSE Div(quote_atoms, market.quote_lot_size)

quote_lots_to_quote_atoms(loaded, market, market_key, quote_lots) ==
    IF market_key \notin loaded THEN {MarketNotFound}
    ELSE Mul(quote_lots, market.quote_lot_size)



CallBaseAtomsToBaseLots(market_key, base_atoms) ==
    /\ conv.op = "none"
    /\ \E result \in base_atoms_to_base_lots(markets, metadata, market_key, base_atoms) :
          conv' = [op |-> "base_atoms_to_base_lots", market_key |-> market_key,
                   amount |-> base_atoms, result |-> result]
    /\ UNCHANGED <<metadata, decode, handling, pollVars, lockVars, bookVars, simVars, parseVars>>

CallBaseLotsToBaseAtoms(market_key, base_lots) ==
    /\ conv.op = "none"
    /\ \E result \in base_lots_to_base_atoms(markets, metadata, market_key, base_lots) :
          conv' = [op |-> "base_lots_to_base_atoms", market_key |-> market_key,
                   amount |-> base_lots, result |-> result]
    /\ UNCHANGED <<metadata, decode, handling, pollVars, lockVars, bookVars, simVars, parseVars>>

CallQuoteAtomsToQuoteLots(market_key, quote_atoms) ==
    /\ conv.op = "none"
    /\ \E result \in quote_atoms_to_quote_lots(markets, metadata, market_key, quote_atoms) :
          conv' = [op |-> "quote_atoms_to_quote_lots", market_key |-> market_key,
                   amount |-> quote_atoms, result |-> result]
    /\ UNCHANGED <<metadata, decode, handling, pollVars, lockVars, bookVars, simVars, parseVars>>

CallQuoteLotsToQuoteAtoms(market_key, quote_lots) ==
    /\ conv.op = "none"
    /\ \E result \in quote_lots_to_quote_atoms(markets, metadata, market_key, quote_lots) :
          conv' = [op |-> "quote_lots_to_quote_atoms", market_key |-> market_key,
                   amount |-> quote_lots, result |-> result]
    /\ UNCHANGED <<metadata, decode, handling, pollVars, lockVars, bookVars, simVars, parseVars>>

\* the call returns (or unwinds)
ConvReturn ==
    /\ conv.op # "none"
    /\ conv' = [op |-> "none", market_key |-> LoadedMarket, amount |-> u64(0, 0),
                result |-> Value(u64(0, 0))]
    /\ UNCHANGED <<metadata, decode, handling, pollVars, lockVars, bookVars, simVars, parseVars>>

\* -------------------------------------------------- market event handler
\* (phoenix-sdk/src/market_event_handler.rs, the provided method
\* handle_events of trait MarketEventHandler).  The three required methods
\* are the implementor's: each invocation returns Ok(()) or an error, here an
\* input of the call (the positions of the events whose handler fails).
MaxEvents == 3

MarketEventDetails == {"Fill", "Place", "Evict", "Reduce", "FillSummary"}
EventBatches == UNION {[1..n -> MarketEventDetails] : n \in 0..MaxEvents}

\* one invocation of a required method, on the event at position `index`
Invocation(method, index) == [method |-> method, index |-> index]
\* the `match event.details` of the loop body
handler_arm(details) ==
    CASE details = "Fill" -> "handle_trade"
      [] details \in {"Evict", "Place", "Reduce"} -> "handle_orderbook_update"
      [] details = "FillSummary" -> "handle_fill_summary"

\* a reading of the source in which a handler's error is dropped and the
\* loop goes on (no `?`)
RECURSIVE handle_events_loop_ignoring_errors(_, _, _, _)
handle_events_loop_ignoring_errors(events, i, failing, invoked) ==
    IF i > Len(events) THEN [status |-> "Ok", index |-> 0, invoked |-> invoked]
    ELSE handle_events_loop_ignoring_errors(events, i + 1, failing,
            Append(invoked, Invocation(handler_arm(events[i]), i)))

\* for event in events.iter() { match .. { .. => self.handle_..(sender, event)? } }
RECURSIVE handle_events_loop(_, _, _, _)
handle_events_loop(events, i, failing, invoked) ==
    IF i > Len(events) THEN [status |-> "Ok", index |-> 0, invoked |-> invoked]
    ELSE LET called == Append(invoked, Invocation(handler_arm(events[i]), i))
         IN  IF i \in failing
             THEN [status |-> "Err", index |-> i, invoked |-> called]
             ELSE handle_events_loop(events, i + 1, failing, called)

handle_events(events, failing) == handle_events_loop(events, 1, failing, <<>>)


CallHandleEvents(events, failing) ==
    /\ handling.op = "none"
    /\ handling' = [op |-> "handle_events", events |-> events,
                    failing |-> failing, result |-> handle_events(events, failing)]
    /\ UNCHANGED <<metadata, conv, decode, pollVars, lockVars, bookVars, simVars, parseVars>>

HandlerReturn ==
    /\ handling.op # "none"
    /\ handling' = [op |-> "none", events |-> <<>>, failing |-> {},
                    result |-> [status |-> "Ok", index |-> 0, invoked |-> <<>>]]
    /\ UNCHANGED <<metadata, conv, decode, pollVars, lockVars, bookVars, simVars, parseVars>>

\* --------------------------------------------------------- event poller
\* (phoenix-sdk/src/event_poller.rs, EventPoller::run on its worker thread).
\* The ledger is the list of the transactions of the market, oldest first; a
\* transaction's signature is its position.  The RPC node answers
\* get_signatures_for_address_with_config with the signatures newer than
\* `until`, newest first, at most `limit` of them (at most MaxPage when the
\* request sets no limit).  Transactions land and the Receiver may go while
\* the poller runs: each blocking call of the loop is a step of its own, and
\* so is what the thread does between two of them.
MaxLedger == 4
MaxPage == 2
MaxPolls == 3

\* the RPC node's answer: the newest `limit` positions above `until`
RECURSIVE get_signatures_for_address_with_config(_, _, _)
get_signatures_for_address_with_config(tip, until, limit) ==
    IF limit = 0 \/ tip <= unwrap_or(until, 0) THEN <<>>
    ELSE <<tip>> \o get_signatures_for_address_with_config(tip - 1, until, limit - 1)

\* GetConfirmedSignaturesForAddress2Config { until, limit }
config_limit(until) == IF until = None THEN 1 ELSE MaxPage

\* .enumerate(): the pairs (i, signature), i from 0
enumerate(signatures) ==
    [i \in 1..Len(signatures) |-> [i |-> i - 1, signature |-> signatures[i]]]

\* a reading of the source without .rev(): the pairs in the node's order
enumerate_forward(signatures) == enumerate(signatures)

\* .enumerate().rev(): the pairs from the last one to the first
enumerate_rev(signatures) == Rev(enumerate(signatures))

\* what parse_events_from_transaction gives the loop: Some(events), None
\* (unwrap_or_default: an empty Vec) or a panic that ends the thread
ParseOutcomes == {"events", "default", "panic"}

PollerStart == [pc |-> "poll", until |-> None, fetched |-> <<>>,
                pending |-> <<>>, events |-> "default", polls |-> 0, sent |-> <<>>]

\* a transaction of the market lands on the ledger
Land ==
    /\ ledger < MaxLedger
    /\ ledger' = ledger + 1
    /\ UNCHANGED <<poller, connected, channel>>
    /\ UNCHANGED <<metadata, conv, decode, handling, lockVars, bookVars, simVars, parseVars>>

\* the Receiver is dropped
Disconnect ==
    /\ connected
    /\ connected' = FALSE
    /\ UNCHANGED <<ledger, poller, channel>>
    /\ UNCHANGED <<metadata, conv, decode, handling, lockVars, bookVars, simVars, parseVars>>

\* the head of `loop`: build the config, ask the node, start the for loop
Poll ==
    /\ poller.pc = "poll"
    /\ poller.polls < MaxPolls
    /\ poller' = [poller EXCEPT
          !.pc = "for",
          !.polls = @ + 1,
          !.fetched = get_signatures_for_address_with_config(
                          ledger, poller.until, config_limit(poller.until)),
          !.pending = enumerate_rev(
              get_signatures_for_address_with_config(
                  ledger, poller.until, config_limit(poller.until)))]
    /\ UNCHANGED <<ledger, connected, channel>>
    /\ UNCHANGED <<metadata, conv, decode, handling, lockVars, bookVars, simVars, parseVars>>

\* the node answers with an error: `.ok()?` returns None from run
PollFails ==
    /\ poller.pc = "poll"
    /\ poller' = [poller EXCEPT !.pc = "returned"]
    /\ UNCHANGED <<ledger, connected, channel>>
    /\ UNCHANGED <<metadata, conv, decode, handling, lockVars, bookVars, simVars, parseVars>>

\* the for loop takes its next item and sets `until` at i == 0
ForItem ==
    /\ poller.pc = "for"
    /\ poller.pending # <<>>
    /\ LET item == Head(poller.pending)
       IN  poller' = [poller EXCEPT
              !.pc = "block_on",
              !.until = IF item.i = 0 THEN Some(item.signature) ELSE @]
    /\ UNCHANGED <<ledger, connected, channel>>
    /\ UNCHANGED <<metadata, conv, decode, handling, lockVars, bookVars, simVars, parseVars>>

\* rt.block_on(sdk.parse_events_from_transaction(&signature)) comes back
\* from its wait on the node: the thread goes on with the events, or ends
\* with the parser's panic
BlockOn(outcome) ==
    /\ poller.pc = "block_on"
    /\ poller' = IF outcome = "panic"
                 THEN [poller EXCEPT !.pc = "panicked"]
                 ELSE [poller EXCEPT !.pc = "send", !.events = outcome]
    /\ UNCHANGED <<ledger, connected, channel>>
    /\ UNCHANGED <<metadata, conv, decode, handling, lockVars, bookVars, simVars, parseVars>>

\* event_sender.send(events): the batch goes to the channel when the
\* Receiver is there; the loop continues either way
Send ==
    /\ poller.pc = "send"
    /\ LET item == Head(poller.pending)
           batch == [signature |-> item.signature, poll |-> poller.polls,
                     events |-> poller.events]
       IN  /\ poller' = [poller EXCEPT !.pc = "for",
                                       !.events = "default",
                                       !.pending = Tail(@),
                                       !.sent = Append(@, batch)]
           /\ channel' = IF connected THEN Append(channel, batch) ELSE channel
    /\ UNCHANGED <<ledger, connected>>
    /\ UNCHANGED <<metadata, conv, decode, handling, lockVars, bookVars, simVars, parseVars>>

\* the for loop is over: std::thread::sleep, then the next turn of `loop`
Sleep ==
    /\ poller.pc = "for"
    /\ poller.pending = <<>>
    /\ poller' = [poller EXCEPT !.pc = "poll"]
    /\ UNCHANGED <<ledger, connected, channel>>
    /\ UNCHANGED <<metadata, conv, decode, handling, lockVars, bookVars, simVars, parseVars>>

\* ------------------------------------------- the mirror between threads
\* (phoenix-sdk-core/src/orderbook.rs: update_orders takes `&mut self`,
\* get_bids, get_asks, vwap and print_ladder take `&self`; the price
\* listeners keep the mirror in an RwLock and call update_orders through
\* write(), vwap through read()).  Here update_orders runs statement by
\* statement and the readers run beside it, each under the borrow its
\* signature asks for.
MaxReaders == 2

Readers == 1..MaxReaders

\* a shared borrow taken without regard to the exclusive one
may_borrow_unchecked(w) == TRUE
\* `&self` (RwLock::read): granted while no exclusive borrow is live
may_borrow(w) == w.pc = "idle"
\* `&mut self` (RwLock::write): granted while no borrow at all is live
may_borrow_mut(w, r) == w.pc = "idle" /\ \A i \in DOMAIN r : r[i].pc = "idle"

\* update_orders is entered: the exclusive borrow begins
WriteBegin(side, orders) ==
    /\ may_borrow_mut(writer, reader)
    /\ writer' = [pc |-> "for", side |-> side, orders |-> orders, price |-> 0]
    /\ UNCHANGED <<reader, bids, asks>>
    /\ UNCHANGED <<raw_base_units_per_base_lot,
                   quote_units_per_raw_base_unit_per_tick, call, pre, steps, ret>>
    /\ UNCHANGED <<metadata, conv, decode, handling, pollVars, simVars, parseVars>>

\* the head of `for (price, qty) in orders`: remove and continue, or insert
\* and enter the loop; with no pair left the call returns
WriteFor ==
    /\ writer.pc = "for"
    /\ IF writer.orders = <<>>
       THEN /\ writer' = [pc |-> "idle", side |-> "Bid", orders |-> <<>>, price |-> 0]
            /\ UNCHANGED <<bids, asks>>
       ELSE LET p == Head(writer.orders)[1]
                qty == Head(writer.orders)[2]
                book == IF writer.side = "Bid" THEN bids ELSE asks
                changed == IF size(qty) = 0 THEN BTreeRemove(book, p)
                           ELSE BTreeInsert(book, p, qty)
            IN  /\ writer' = [writer EXCEPT
                      !.pc = IF size(qty) = 0 THEN "for" ELSE "loop",
                      !.orders = Tail(@),
                      !.price = p]
                /\ bids' = IF writer.side = "Bid" THEN changed ELSE bids
                /\ asks' = IF writer.side = "Ask" THEN changed ELSE asks
    /\ UNCHANGED reader
    /\ UNCHANGED <<raw_base_units_per_base_lot,
                   quote_units_per_raw_base_unit_per_tick, call, pre, steps, ret>>
    /\ UNCHANGED <<metadata, conv, decode, handling, pollVars, simVars, parseVars>>

\* one turn of `loop`: remove the best opposite entry if the price reaches
\* it, else break
WriteLoop ==
    /\ writer.pc = "loop"
    /\ LET opposite_book == IF writer.side = "Bid" THEN asks ELSE bids
       IN  IF DOMAIN opposite_book = {}
           THEN /\ writer' = [writer EXCEPT !.pc = "for"]
                /\ UNCHANGED <<bids, asks>>
           ELSE LET key == opposite_best(writer.side, opposite_book)
                IN  IF price(writer.price) * sign(writer.side)
                          >= price(key) * sign(writer.side)
                    THEN /\ UNCHANGED writer
                         /\ bids' = IF writer.side = "Ask"
                                    THEN BTreeRemove(bids, key) ELSE bids
                         /\ asks' = IF writer.side = "Bid"
                                    THEN BTreeRemove(asks, key) ELSE asks
                    ELSE /\ writer' = [writer EXCEPT !.pc = "for"]
                         /\ UNCHANGED <<bids, asks>>
    /\ UNCHANGED reader
    /\ UNCHANGED <<raw_base_units_per_base_lot,
                   quote_units_per_raw_base_unit_per_tick, call, pre, steps, ret>>
    /\ UNCHANGED <<metadata, conv, decode, handling, pollVars, simVars, parseVars>>

\* vwap is entered: a shared borrow begins
ReadBegin(r) ==
    /\ reader[r].pc = "idle"
    /\ may_borrow(writer)
    /\ reader' = [reader EXCEPT ![r] = [pc |-> "get_bids", bids |-> <<>>, asks |-> <<>>]]
    /\ UNCHANGED <<writer, bookVars>>
    /\ UNCHANGED <<metadata, conv, decode, handling, pollVars, simVars, parseVars>>

\* let bids = self.get_bids()
ReadBids(r) ==
    /\ reader[r].pc = "get_bids"
    /\ reader' = [reader EXCEPT ![r].pc = "get_asks",
                                ![r].bids = Rev(BTreeIter(bids))]
    /\ UNCHANGED <<writer, bookVars>>
    /\ UNCHANGED <<metadata, conv, decode, handling, pollVars, simVars, parseVars>>

\* let asks = self.get_asks()
ReadAsks(r) ==
    /\ reader[r].pc = "get_asks"
    /\ reader' = [reader EXCEPT ![r].pc = "return",
                                ![r].asks = BTreeIter(asks)]
    /\ UNCHANGED <<writer, bookVars>>
    /\ UNCHANGED <<metadata, conv, decode, handling, pollVars, simVars, parseVars>>

\* vwap returns: the shared borrow ends
ReadReturn(r) ==
    /\ reader[r].pc = "return"
    /\ reader' = [reader EXCEPT ![r] = [pc |-> "idle", bids |-> <<>>, asks |-> <<>>]]
    /\ UNCHANGED <<writer, bookVars>>
    /\ UNCHANGED <<metadata, conv, decode, handling, pollVars, simVars, parseVars>>


Init ==
    /\ bids = BTreeNew
    /\ asks = BTreeNew
    /\ \E m \in Multipliers :
           /\ raw_base_units_per_base_lot = m[1]
           /\ quote_units_per_raw_base_unit_per_tick = m[2]
    /\ call = NoCall
    /\ pre = [bids |-> BTreeNew, asks |-> BTreeNew]
    /\ steps = <<>>
    /\ ret = <<>>
    /\ ladder = EmptyLadder
    /\ sim = NoSim
    /\ markets = {LoadedMarket}
    /\ parse = NoParse
    /\ sdk_client = NoClient
    /\ decode = NoDecode
    /\ metadata = DefaultMetadata
    /\ conv = [op |-> "none", market_key |-> LoadedMarket, amount |-> u64(0, 0),
                result |-> Value(u64(0, 0))]
    /\ handling = [op |-> "none", events |-> <<>>, failing |-> {},
                    result |-> [status |-> "Ok", index |-> 0, invoked |-> <<>>]]
    /\ ledger = 0
    /\ poller = PollerStart
    /\ connected = TRUE
    /\ channel = <<>>
    /\ writer = [pc |-> "idle", side |-> "Bid", orders |-> <<>>, price |-> 0]
    /\ reader = [r \in Readers |-> [pc |-> "idle", bids |-> <<>>, asks |-> <<>>]]

Next ==
    \/ \E side \in Sides, orders \in OrderLists : update_orders(side, orders)
    \/ get_bids
    \/ get_asks
    \/ Return

Spec == Init /\ [][Next]_vars

\* the mirror under lists of several pairs and the single-pair entry points
BatchLists == UNION {[1..n -> Pairs] : n \in 0..MaxBatch}
BatchInit == Init /\ raw_base_units_per_base_lot = 0
BatchNext ==
    \/ /\ Idle
       /\ \E side \in Sides, orders \in BatchLists : update_orders(side, orders)
    \/ /\ Idle
       /\ \E side \in Sides, order \in Pairs :
             process_book_update(side, order[1], order[2])
    \/ /\ Idle
       /\ \E side \in Sides, order \in Pairs : process_trade(side, order[1], order[2])
    \/ Return

BatchSpec == BatchInit /\ [][BatchNext]_vars

\* the simulator on a fixed ladder; the mirror stays as constructed
SimInit ==
    /\ bids = BTreeNew
    /\ asks = BTreeNew
    /\ raw_base_units_per_base_lot = 0
    /\ quote_units_per_raw_base_unit_per_tick = 0
    /\ call = NoCall
    /\ pre = [bids |-> BTreeNew, asks |-> BTreeNew]
    /\ steps = <<>>
    /\ ret = <<>>
    /\ ladder \in Ladders
    /\ sim = NoSim
    /\ markets = {LoadedMarket}
    /\ parse = NoParse
    /\ sdk_client = NoClient
    /\ decode = NoDecode
    /\ metadata = DefaultMetadata
    /\ conv = [op |-> "none", market_key |-> LoadedMarket, amount |-> u64(0, 0),
                result |-> Value(u64(0, 0))]
    /\ handling = [op |-> "none", events |-> <<>>, failing |-> {},
                    result |-> [status |-> "Ok", index |-> 0, invoked |-> <<>>]]
    /\ ledger = 0
    /\ poller = PollerStart
    /\ connected = TRUE
    /\ channel = <<>>
    /\ writer = [pc |-> "idle", side |-> "Bid", orders |-> <<>>, price |-> 0]
    /\ reader = [r \in Readers |-> [pc |-> "idle", bids |-> <<>>, asks |-> <<>>]]

SimNext ==
    \/ \E n \in Budgets : CallSellQuote(n)
    \/ \E n \in Budgets : CallSellBase(n)
    \/ \E side \in Sides, n \in Budgets : CallSimulateMarketSell(side, n)
    \/ SimReturn

SimSpec == SimInit /\ [][SimNext]_vars

\* the translators on the raw records of one transaction at a time.  The
\* program holds the client of its crate: an SDKClientCore whose market is
\* loaded with the lot sizes of its account, or an SDKClient constructed on
\* that market (beside a core that has no market loaded).
ParseInit ==
    /\ bids = BTreeNew
    /\ asks = BTreeNew
    /\ raw_base_units_per_base_lot = 0
    /\ quote_units_per_raw_base_unit_per_tick = 0
    /\ call = NoCall
    /\ pre = [bids |-> BTreeNew, asks |-> BTreeNew]
    /\ steps = <<>>
    /\ ret = <<>>
    /\ ladder = EmptyLadder
    /\ sim = NoSim
    /\ \/ markets = {LoadedMarket} /\ sdk_client = NoClient
       \/ markets = {} /\ sdk_client = new(LoadedMarket)
    /\ parse = NoParse
    /\ decode = NoDecode
    /\ metadata = get_market_metadata(LoadedMarket)
    /\ conv = [op |-> "none", market_key |-> LoadedMarket, amount |-> u64(0, 0),
                result |-> Value(u64(0, 0))]
    /\ handling = [op |-> "none", events |-> <<>>, failing |-> {},
                    result |-> [status |-> "Ok", index |-> 0, invoked |-> <<>>]]
    /\ ledger = 0
    /\ poller = PollerStart
    /\ connected = TRUE
    /\ channel = <<>>
    /\ writer = [pc |-> "idle", side |-> "Bid", orders |-> <<>>, price |-> 0]
    /\ reader = [r \in Readers |-> [pc |-> "idle", bids |-> <<>>, asks |-> <<>>]]
ParseNext ==
    \/ /\ ParseIdle
       /\ \E market_key \in markets, frames \in Transactions(MaxSubRecords) :
             \E subs \in [1..SubRecordCount(frames) -> SubRecords] :
                CallParsePhoenixEvents(market_key, RawRecords(frames, subs))
    \/ /\ ParseIdle
       /\ \E market_key \in markets, frames \in ShortTransactions :
             \E subs \in [1..SubRecordCount(frames) -> ShortSubRecords] :
                CallParsePhoenixEvents(market_key, RawRecords(frames, subs))
    \/ /\ ParseIdle
       /\ \E market_key \in MarketKeys \ markets, frames \in FrameLists(1, 1, 1, 0) :
             \E subs \in [1..SubRecordCount(frames) -> SubRecords] :
                CallParsePhoenixEvents(market_key, RawRecords(frames, subs))
    \/ /\ ParseIdle /\ sdk_client # NoClient
       /\ \E frames \in Transactions(MaxSubRecords - 1) :
             \E subs \in [1..SubRecordCount(frames) -> SubRecords] :
                CallParseWrapperEvents(RawRecords(frames, subs))
    \/ /\ ParseIdle /\ sdk_client # NoClient
       /\ \E frames \in ShortTransactions :
             \E subs \in [1..SubRecordCount(frames) -> ShortSubRecords] :
                CallParseWrapperEvents(RawRecords(frames, subs))
    \/ \E market_key \in MarketKeys : add_market(market_key)
    \/ \E market \in MarketKeys : change_active_market(market)
    \/ ParseReturn

ParseSpec == ParseInit /\ [][ParseNext]_vars

\* the packet decoders on what clients of either version put on the wire
DecodeNext ==
    \/ /\ decode.op = "none"
       /\ \E tag \in Tags, damage \in Damages, packet \in PostOnlyPackets :
             CallDecodePostOnly(Packet(tag, PostOnlyPacket, packet, damage))
    \/ /\ decode.op = "none"
       /\ \E tag \in Tags, damage \in Damages, packet \in DeprecatedPostOnlyPackets :
             CallDecodePostOnly(Packet(tag, DeprecatedPostOnlyPacket, packet, damage))
    \/ /\ decode.op = "none"
       /\ \E tag \in Tags, damage \in Damages, packet \in LimitPackets :
             CallDecodeLimit(Packet(tag, LimitPacket, packet, damage))
    \/ /\ decode.op = "none"
       /\ \E tag \in Tags, damage \in Damages, packet \in DeprecatedLimitPackets :
             CallDecodeLimit(Packet(tag, DeprecatedLimitPacket, packet, damage))
    \/ CallDecodePostOnly(<<>>)
    \/ CallDecodeLimit(<<>>)
    \/ DecodeReturn

DecodeSpec == BatchInit /\ [][DecodeNext]_vars

\* the conversions on a market loaded with its lot sizes
ConvInit ==
    /\ bids = BTreeNew
    /\ asks = BTreeNew
    /\ raw_base_units_per_base_lot = 0
    /\ quote_units_per_raw_base_unit_per_tick = 0
    /\ call = NoCall
    /\ pre = [bids |-> BTreeNew, asks |-> BTreeNew]
    /\ steps = <<>>
    /\ ret = <<>>
    /\ ladder = EmptyLadder
    /\ sim = NoSim
    /\ markets = {LoadedMarket}
    /\ parse = NoParse
    /\ sdk_client = NoClient
    /\ decode = NoDecode
    /\ metadata \in [base_lot_size : LotSizes, quote_lot_size : LotSizes]
    /\ conv = [op |-> "none", market_key |-> LoadedMarket, amount |-> u64(0, 0),
                result |-> Value(u64(0, 0))]
    /\ handling = [op |-> "none", events |-> <<>>, failing |-> {},
                    result |-> [status |-> "Ok", index |-> 0, invoked |-> <<>>]]
    /\ ledger = 0
    /\ poller = PollerStart
    /\ connected = TRUE
    /\ channel = <<>>
    /\ writer = [pc |-> "idle", side |-> "Bid", orders |-> <<>>, price |-> 0]
    /\ reader = [r \in Readers |-> [pc |-> "idle", bids |-> <<>>, asks |-> <<>>]]

ConvNext ==
    \/ \E market_key \in MarketKeys, n \in Words : CallBaseAtomsToBaseLots(market_key, n)
    \/ \E market_key \in MarketKeys, n \in Words : CallBaseLotsToBaseAtoms(market_key, n)
    \/ \E market_key \in MarketKeys, n \in Words : CallQuoteAtomsToQuoteLots(market_key, n)
    \/ \E market_key \in MarketKeys, n \in Words : CallQuoteLotsToQuoteAtoms(market_key, n)
    \/ ConvReturn

ConvSpec == ConvInit /\ [][ConvNext]_vars

\* handle_events on the batches of one transaction, with handlers that fail
HandlerNext ==
    \/ /\ handling.op = "none"
       /\ \E events \in EventBatches :
             \E failing \in SUBSET (1..Len(events)) : CallHandleEvents(events, failing)
    \/ HandlerReturn

HandlerSpec == BatchInit /\ [][HandlerNext]_vars

\* the poller's thread against a ledger that grows and a receiver that may go
PollerNext ==
    \/ Land
    \/ Disconnect
    \/ Poll
    \/ PollFails
    \/ ForItem
    \/ \E outcome \in ParseOutcomes : BlockOn(outcome)
    \/ Send
    \/ Sleep

PollerSpec == BatchInit /\ [][PollerNext]_vars

\* one writer and the readers on the shared mirror
LockNext ==
    \/ /\ may_borrow_mut(writer, reader)
       /\ \E side \in Sides, orders \in OrderLists : WriteBegin(side, orders)
    \/ WriteFor
    \/ WriteLoop
    \/ \E r \in Readers : ReadBegin(r)
    \/ \E r \in Readers : ReadBids(r)
    \/ \E r \in Readers : ReadAsks(r)
    \/ \E r \in Readers : ReadReturn(r)

LockSpec == BatchInit /\ [][LockNext]_vars

\* ====================================================================
\* Properties of the order-book mirror, checked under Spec
\* ====================================================================
IsUpdate == call.op = "update_orders"
\* the (book, opposite_book) the i-th pair of the call in progress found
Before(i) ==
    IF i = 1
    THEN [book |-> IF call.side = "Bid" THEN pre.bids ELSE pre.asks,
          opp |-> IF call.side = "Bid" THEN pre.asks ELSE pre.bids]
    ELSE [book |-> steps[i - 1].book, opp |-> steps[i - 1].opp]
PairPrice(i) == call.orders[i][1]
PairQty(i) == call.orders[i][2]
\* the opposite-side keys that the price p of `side` crosses or touches
Crossed(side, p, opposite_book) ==
    {k \in DOMAIN opposite_book : price(p) * sign(side) >= price(k) * sign(side)}

\* C1: the book is never crossed: whenever both sides are non-empty, every
\* bid price is strictly below every ask price; this holds after every
\* update_orders call and after each pair within a call.
C1_NoCrossedBook ==
    /\ \A b \in DOMAIN bids, a \in DOMAIN asks : price(b) < price(a)
    /\ IsUpdate =>
          \A i \in 1..Len(steps) :
             LET bs == IF call.side = "Bid" THEN steps[i].book ELSE steps[i].opp
                 as == IF call.side = "Bid" THEN steps[i].opp ELSE steps[i].book
             IN  \A b \in DOMAIN bs, a \in DOMAIN as : price(b) < price(a)

\* an update has removed a crossed entry and left both sides non-empty
C1_Witness ==
    /\ IsUpdate
    /\ DOMAIN bids # {}
    /\ DOMAIN asks # {}
    /\ \E i \in 1..Len(steps) : steps[i].iters > 0

\* C2 as stated: after every pair, an upsert and a zero-quantity removal
\* alike, no opposite-side entry at or through the pair's price remains.
C2_CrossingResolvedAfterEveryPair ==
    IsUpdate =>
       \A i \in 1..Len(steps) : Crossed(call.side, PairPrice(i), steps[i].opp) = {}

\* C2 amended: after a pair of quantity > 0 the opposite side is what it was
\* less every entry at or through the pair's price, so none such remains; a
\* zero-quantity removal skips crossing resolution and leaves the opposite
\* side as it was.
C2_CrossingResolvedAfterUpsert ==
    IsUpdate =>
       \A i \in 1..Len(steps) :
          LET was == Before(i).opp
              hit == Crossed(call.side, PairPrice(i), was)
          IN  IF size(PairQty(i)) = 0
              THEN steps[i].opp = was
              ELSE /\ Crossed(call.side, PairPrice(i), steps[i].opp) = {}
                   /\ DOMAIN steps[i].opp = (DOMAIN was) \ hit
                   /\ \A k \in DOMAIN steps[i].opp : steps[i].opp[k] = was[k]
                   /\ steps[i].iters = Cardinality(hit)

\* an upsert has removed two opposite entries, one touched and one crossed
C2_Witness ==
    /\ IsUpdate
    /\ \E i \in 1..Len(steps) :
          /\ size(PairQty(i)) > 0
          /\ steps[i].iters >= 2
          /\ PairPrice(i) \in DOMAIN Before(i).opp

\* C3: a pair (price, 0) leaves its side without an entry at price; every
\* other entry of the side stays, so when none was there the side is unchanged.
C3_ZeroQuantityRemoves ==
    IsUpdate =>
       \A i \in 1..Len(steps) :
          size(PairQty(i)) = 0 =>
             /\ PairPrice(i) \notin DOMAIN steps[i].book
             /\ DOMAIN steps[i].book = (DOMAIN Before(i).book) \ {PairPrice(i)}
             /\ \A k \in DOMAIN steps[i].book : steps[i].book[k] = Before(i).book[k]
             /\ PairPrice(i) \notin DOMAIN Before(i).book => steps[i].book = Before(i).book

\* a zero-quantity pair has removed an entry that was there
C3_Witness ==
    /\ IsUpdate
    /\ \E i \in 1..Len(steps) :
          /\ size(PairQty(i)) = 0
          /\ PairPrice(i) \in DOMAIN Before(i).book
          /\ PairPrice(i) \notin DOMAIN steps[i].book

\* C4: when a pair of quantity > 0 crosses or touches opposite entries, each
\* of them is gone afterwards whatever its size, and the pair's own entry
\* holds the full quantity.
C4_FullRemovalOnCrossing ==
    IsUpdate =>
       \A i \in 1..Len(steps) :
          size(PairQty(i)) > 0 =>
             /\ \A k \in Crossed(call.side, PairPrice(i), Before(i).opp) :
                   k \notin DOMAIN steps[i].opp
             /\ PairPrice(i) \in DOMAIN steps[i].book
             /\ steps[i].book[PairPrice(i)] = PairQty(i)

\* a pair has crossed an opposite entry larger than itself
C4_Witness ==
    /\ IsUpdate
    /\ \E i \in 1..Len(steps) :
          /\ size(PairQty(i)) > 0
          /\ \E k \in Crossed(call.side, PairPrice(i), Before(i).opp) :
                /\ size(Before(i).opp[k]) > size(PairQty(i))
                /\ k \notin DOMAIN steps[i].opp
          /\ steps[i].book[PairPrice(i)] = PairQty(i)

\* C5: after a pair (price, quantity > 0) the side, read in key order, holds
\* exactly one entry at price, and its value is quantity (a prior entry is
\* replaced); the other entries of the side are as they were.
C5_UpsertReplaces ==
    IsUpdate =>
       \A i \in 1..Len(steps) :
          size(PairQty(i)) > 0 =>
             LET entries == BTreeIter(steps[i].book)
             IN  /\ Cardinality({j \in 1..Len(entries) : entries[j][1] = PairPrice(i)}) = 1
                 /\ \A j \in 1..Len(entries) :
                       entries[j][1] = PairPrice(i) => entries[j][2] = PairQty(i)
                 /\ DOMAIN steps[i].book = (DOMAIN Before(i).book) \cup {PairPrice(i)}
                 /\ \A k \in (DOMAIN steps[i].book) \ {PairPrice(i)} :
                       steps[i].book[k] = Before(i).book[k]

\* an upsert has replaced a prior entry of another size
C5_Witness ==
    /\ IsUpdate
    /\ \E i \in 1..Len(steps) :
          /\ size(PairQty(i)) > 0
          /\ PairPrice(i) \in DOMAIN Before(i).book
          /\ Before(i).book[PairPrice(i)] # PairQty(i)
          /\ steps[i].book[PairPrice(i)] = PairQty(i)

\* C6: after update_orders(side, [(price, quantity)]) with a pair that crossed
\* nothing, applying the same call again leaves bids and asks as they are.
C6_Idempotent ==
    (/\ IsUpdate
     /\ Len(call.orders) = 1
     /\ (size(PairQty(1)) = 0 \/ Crossed(call.side, PairPrice(1), Before(1).opp) = {}))
    => LET book == IF call.side = "Bid" THEN bids ELSE asks
           opposite_book == IF call.side = "Bid" THEN asks ELSE bids
           again == run_orders(book, opposite_book, call.side, call.orders)
       IN  /\ again[1].book = book
           /\ again[1].opp = opposite_book

\* a non-crossing upsert onto a non-empty opposite side has replaced an entry
C6_Witness ==
    /\ IsUpdate
    /\ Len(call.orders) = 1
    /\ size(PairQty(1)) > 0
    /\ Before(1).opp # <<>>
    /\ Crossed(call.side, PairPrice(1), Before(1).opp) = {}
    /\ PairPrice(1) \in DOMAIN Before(1).book

\* C7: get_bids returns every bid entry once, in strictly descending price
\* order; get_asks returns every ask entry once, in strictly ascending price
\* order; neither changes the book.
C7_ReadsBestFirst ==
    /\ call.op = "get_bids" =>
          /\ Len(ret) = Cardinality(DOMAIN bids)
          /\ {ret[j] : j \in 1..Len(ret)} = {<<k, bids[k]>> : k \in DOMAIN bids}
          /\ \A j \in 1..(Len(ret) - 1) : price(ret[j][1]) > price(ret[j + 1][1])
          /\ bids = pre.bids /\ asks = pre.asks
    /\ call.op = "get_asks" =>
          /\ Len(ret) = Cardinality(DOMAIN asks)
          /\ {ret[j] : j \in 1..Len(ret)} = {<<k, asks[k]>> : k \in DOMAIN asks}
          /\ \A j \in 1..(Len(ret) - 1) : price(ret[j][1]) < price(ret[j + 1][1])
          /\ bids = pre.bids /\ asks = pre.asks

\* get_bids has returned two or more entries
C7_Witness ==
    /\ call.op = "get_bids"
    /\ Len(ret) >= 2
    /\ ret[1][1] > ret[2][1]

\* ====================================================================
\* Properties of the execution simulator, checked under SimSpec
\* ====================================================================
IsSellBase ==
    \/ sim.op = "sell_base"
    \/ sim.op = "simulate_market_sell" /\ sim.side = "Ask"
IsSellQuote ==
    \/ sim.op = "sell_quote"
    \/ sim.op = "simulate_market_sell" /\ sim.side = "Bid"
RECURSIVE SumSizes(_)
SumSizes(levels) ==
    IF levels = <<>> THEN 0 ELSE Head(levels).size_in_base_lots + SumSizes(Tail(levels))
RECURSIVE SumTaken(_)
SumTaken(visits) ==
    IF visits = <<>> THEN 0 ELSE Head(visits).taken + SumTaken(Tail(visits))
\* The numbers the claims speak of: limbs like those of a u64 and two more of
\* them, so that no sum or product of the amounts of a ladder wraps.
Wide(a) == [i \in 1..(Len(a) + 2) |-> IF i <= Len(a) THEN a[i] ELSE 0]
Number(n) == Wide(as_u64(n))
\* a * k from limb i on, with the carry c of the limbs below
RECURSIVE TimesFrom(_, _, _, _)
TimesFrom(a, k, i, c) ==
    IF i > Len(a) THEN <<>>
    ELSE <<(a[i] * k + c) % Limb>> \o TimesFrom(a, k, i + 1, (a[i] * k + c) \div Limb)
Times(a, k) == TimesFrom(a, k, 1, 0)
\* a + b from limb i on, with the carry c of the limbs below
RECURSIVE PlusFrom(_, _, _, _)
PlusFrom(a, b, i, c) ==
    IF i > Len(a) THEN <<>>
    ELSE <<(a[i] + b[i] + c) % Limb>> \o PlusFrom(a, b, i + 1, (a[i] + b[i] + c) \div Limb)
Plus(a, b) == PlusFrom(a, b, 1, 0)
Leq(a, b) ==
    \/ \A i \in 1..Len(a) : a[i] = b[i]
    \/ \E i \in 1..Len(a) : a[i] < b[i] /\ \A j \in (i + 1)..Len(a) : a[j] = b[j]
\* floor(n / p), for p # 0
Floor(n, p) ==
    LET wide == Wide(p)
        number == Number(n)
    IN  CHOOSE q \in 0..n : /\ Leq(Times(wide, q), number)
                            /\ ~Leq(Times(wide, q + 1), number)
\* sum over the visits of taken * price
RECURSIVE SumNotional(_)
SumNotional(visits) ==
    IF visits = <<>> THEN Number(0)
    ELSE Plus(Times(Wide(Head(visits).level.price_in_ticks), Head(visits).taken),
              SumNotional(Tail(visits)))
\* what a base budget leaves for the i-th level once the levels before it are
\* consumed whole, capped by that level's size
BaseShare(levels, budget, i) ==
    LET ahead == SumSizes(SubSeq(levels, 1, i - 1))
    IN  Min(IF budget > ahead THEN budget - ahead ELSE 0, levels[i].size_in_base_lots)
RECURSIVE BaseShareNotional(_, _, _)
BaseShareNotional(levels, budget, i) ==
    IF i = 0 THEN Number(0)
    ELSE Plus(Times(Wide(levels[i].price_in_ticks), BaseShare(levels, budget, i)),
              BaseShareNotional(levels, budget, i - 1))

\* C8: for every ladder and every size, sell_base returns, and fills
\* min(size_in_lots, total size of the bid levels) base lots: never more than
\* asked, and exactly the total depth when more is asked.
C8_SellBaseConserves ==
    IsSellBase =>
       /\ ~sim.result.panicked
       /\ sim.result.base_lots_filled = Min(sim.size, SumSizes(ladder.bids))
       /\ sim.result.base_lots_filled <= sim.size
       /\ sim.size > SumSizes(ladder.bids) =>
             sim.result.base_lots_filled = SumSizes(ladder.bids)

\* C9: sell_base visits the bids in ladder order; the i-th level gives
\* min(budget left, its size), which is what the budget leaves once every
\* level before it is consumed whole; quote_lots_filled is the sum of
\* taken * price over the levels; a level gives something only when every
\* level before it gave its whole size.
C9_SellBaseWalk ==
    IsSellBase =>
       LET v == sim.result.visits
           lv == ladder.bids
       IN  /\ ~sim.result.panicked
           /\ Len(v) <= Len(lv)
           /\ \A i \in 1..Len(v) :
                 /\ v[i].level = lv[i]
                 /\ v[i].before = sim.size - SumTaken(SubSeq(v, 1, i - 1))
                 /\ v[i].taken = Min(v[i].before, lv[i].size_in_base_lots)
                 /\ v[i].taken = BaseShare(lv, sim.size, i)
                 /\ \A j \in 1..(i - 1) : v[j].taken = lv[j].size_in_base_lots
           /\ \A i \in (Len(v) + 1)..Len(lv) : BaseShare(lv, sim.size, i) = 0
           /\ Wide(sim.result.quote_lots_filled) = SumNotional(v)
           /\ Wide(sim.result.quote_lots_filled) = BaseShareNotional(lv, sim.size, Len(lv))

\* C10: on a ladder whose ask prices are all >= 1, sell_quote buys at each
\* level min(floor(budget left / price), level size) base lots; the budget
\* left never drops below 0, quote_lots_filled is the budget less what is
\* left, at most the budget, and no level gives more than its size.
C10_SellQuoteNeverOverspends ==
    (IsSellQuote /\ \A i \in 1..Len(ladder.asks) : ladder.asks[i].price_in_ticks # u64(0, 0))
    => LET v == sim.result.visits
           lv == ladder.asks
           left == IF v = <<>> THEN sim.size ELSE v[Len(v)].after
       IN  /\ ~sim.result.panicked
           /\ Len(v) <= Len(lv)
           /\ \A i \in 1..Len(v) :
                 /\ v[i].level = lv[i]
                 /\ v[i].before = IF i = 1 THEN sim.size ELSE v[i - 1].after
                 /\ v[i].taken = Min(Floor(v[i].before, lv[i].price_in_ticks),
                                     lv[i].size_in_base_lots)
                 /\ v[i].taken <= lv[i].size_in_base_lots
                 /\ LET spent == Times(Wide(lv[i].price_in_ticks), v[i].taken)
                    IN  /\ Leq(spent, Number(v[i].before))
                        /\ v[i].after >= 0
                        /\ Plus(spent, Number(v[i].after)) = Number(v[i].before)
           /\ sim.result.quote_lots_filled = as_u64(sim.size - left)
           /\ LET used == Wide(sim.result.quote_lots_filled)
              IN  /\ used = SumNotional(v)
                  /\ Leq(used, Number(sim.size))
                  /\ Leq(Number(0), used)
           /\ sim.result.base_lots_filled = SumTaken(v)

\* a budget that the price does not divide has bought across two levels and
\* some of it is left over
C10_Witness ==
    /\ IsSellQuote
    /\ \A i \in 1..Len(ladder.asks) : ladder.asks[i].price_in_ticks # u64(0, 0)
    /\ Len(sim.result.visits) >= 2
    /\ \E i \in 1..Len(sim.result.visits) :
          LET w == sim.result.visits[i]
          IN  /\ \E tick \in 1..MaxTick : /\ w.level.price_in_ticks = u64(0, tick)
                                          /\ w.before % tick # 0
              /\ w.taken < w.level.size_in_base_lots
    /\ sim.result.base_lots_filled > 0
    /\ sim.result.quote_lots_filled # as_u64(sim.size)
    /\ Leq(Wide(sim.result.quote_lots_filled), Number(sim.size))

IsSimulate == sim.op = "simulate_market_sell"
\* sum over the levels of size * price
RECURSIVE TotalNotional(_)
TotalNotional(levels) ==
    IF levels = <<>> THEN Number(0)
    ELSE Plus(Times(Wide(Head(levels).price_in_ticks), Head(levels).size_in_base_lots),
              TotalNotional(Tail(levels)))
\* the side of the ladder a call of that side consumes
Consumed(l, side) == IF side = "Bid" THEN l.asks ELSE l.bids
\* bid prices non-increasing, ask prices non-decreasing
BestToWorst(l) ==
    /\ \A i \in 1..(Len(l.bids) - 1) :
          Leq(l.bids[i + 1].price_in_ticks, l.bids[i].price_in_ticks)
    /\ \A i \in 1..(Len(l.asks) - 1) :
          Leq(l.asks[i].price_in_ticks, l.asks[i + 1].price_in_ticks)

\* C11: whenever the quote budget is at least the total ask notional,
\* simulate_market_sell(Bid, budget) returns quote_lots_filled equal to that
\* notional and base_lots_filled equal to the total ask size.
C11_BuyMoreThanAvailable ==
    (IsSimulate /\ sim.side = "Bid" /\ Leq(TotalNotional(ladder.asks), Number(sim.size)))
    => /\ ~sim.result.panicked
       /\ Wide(sim.result.quote_lots_filled) = TotalNotional(ladder.asks)
       /\ sim.result.base_lots_filled = SumSizes(ladder.asks)

\* C12: on a ladder ordered best to worst, for either side and any sizes
\* s1 <= s2, simulate_market_sell(side, s2) returns base_lots_filled and
\* quote_lots_filled each >= those returned for s1 (by the same build).
C12_Monotone ==
    (IsSimulate /\ BestToWorst(ladder))
    => \E overflow_checks \in BOOLEAN :
          /\ sim.result = simulate_market_sell(ladder, sim.side, sim.size, overflow_checks)
          /\ \A s1 \in 0..sim.size :
                LET r1 == simulate_market_sell(ladder, sim.side, s1, overflow_checks)
                IN  /\ ~r1.panicked
                    /\ ~sim.result.panicked
                    /\ r1.base_lots_filled <= sim.result.base_lots_filled
                    /\ Leq(r1.quote_lots_filled, sim.result.quote_lots_filled)

\* C13: simulate_market_sell(Bid, n) returns exactly sell_quote(n) and
\* simulate_market_sell(Ask, n) exactly sell_base(n); replacing the side of
\* the ladder that is not consumed, by nothing or by its reverse, leaves the
\* result as it is.
C13_Dispatch ==
    IsSimulate =>
       /\ sim.side = "Bid" =>
             /\ sim.result = sell_quote(ladder, sim.size)
             /\ sim.result.visits = sell_quote_loop(ladder.asks, sim.size, 0).visits
             /\ \A other \in {<<>>, Rev(ladder.bids)}, overflow_checks \in BOOLEAN :
                   simulate_market_sell([ladder EXCEPT !.bids = other],
                                        "Bid", sim.size, overflow_checks) = sim.result
       /\ sim.side = "Ask" =>
             \E overflow_checks \in BOOLEAN :
                /\ sim.result = sell_base(ladder, sim.size, overflow_checks)
                /\ sim.result.visits =
                      sell_base_loop(ladder.bids, sim.size, u64(0, 0), overflow_checks).visits
                /\ \A other \in {<<>>, Rev(ladder.asks)} :
                      simulate_market_sell([ladder EXCEPT !.asks = other],
                                           "Ask", sim.size, overflow_checks) = sim.result

\* a buy on a ladder with both sides, where the other walk answers otherwise
C13_Witness ==
    /\ IsSimulate
    /\ sim.side = "Bid"
    /\ ladder.bids # <<>>
    /\ ladder.asks # <<>>
    /\ sim.result.base_lots_filled > 0
    /\ sim.result.visits[1].level = ladder.asks[1]
    /\ \A overflow_checks \in BOOLEAN :
          sell_base(ladder, sim.size, overflow_checks).quote_lots_filled
              # sim.result.quote_lots_filled

\* C14: simulate_market_sell returns (0, 0) whenever size_in_lots = 0, on
\* either side, and whenever the consumed side of the ladder is empty.
C14_NothingToFill ==
    (IsSimulate /\ (sim.size = 0 \/ Consumed(ladder, sim.side) = <<>>))
    => /\ ~sim.result.panicked
       /\ sim.result.base_lots_filled = 0
       /\ sim.result.quote_lots_filled = u64(0, 0)
       /\ sim.result.visits = <<>>

\* a budget asked of an empty side while the other side holds levels
C14_Witness ==
    /\ IsSimulate
    /\ sim.size > 0
    /\ Consumed(ladder, sim.side) = <<>>
    /\ Len(ladder.bids) + Len(ladder.asks) >= 2
    /\ sim.result.base_lots_filled = 0
    /\ sim.result.quote_lots_filled = u64(0, 0)

\* ====================================================================
\* Properties of the event translators, checked under ParseSpec
\* ====================================================================
IsCore == parse.op = "parse_phoenix_events" /\ parse.market_key \in markets
IsWrapper == parse.op = "parse_wrapper_events"
IsParse == IsCore \/ IsWrapper
\* what the translator of the call gives for other raw records in a build
Translate(op, events, overflow_checks) ==
    IF op = "parse_phoenix_events"
    THEN parse_phoenix_events(markets, metadata, LoadedMarket, events, overflow_checks)
    ELSE parse_wrapper_events(sdk_client, events, overflow_checks)
\* a raw record with a decode error: no header, or a body that does not decode
Faulty(op, event) ==
    \/ event.header # "Header"
    \/ op = "parse_phoenix_events" /\ ~body_decodes(event)
    \/ /\ op = "parse_wrapper_events"
       /\ \E j \in 1..Len(event.events) : event.events[j].tag \notin MarketEventWrapperTags
\* the tags parse_phoenix_events has an arm for
Recognized ==
    {"Fill", "Reduce", "Place", "Evict", "FillSummary", "Fee", "TimeInForce",
     "ExpiredOrder"}
\* a raw record without its sub-records of unrecognized tag
Strip(event) ==
    LET kept == SelectSeq(event.events, LAMBDA e : e.tag \in Recognized)
    IN  [event EXCEPT !.events = kept, !.total_events = Len(kept)]
SameIdentity(a, b) ==
    /\ a.header = "Header"
    /\ b.header = "Header"
    /\ a.sequence_number = b.sequence_number
    /\ a.signer = b.signer
\* the raw records with the i-th and the next merged into one batch
Merged(events, i) ==
    SubSeq(events, 1, i - 1)
    \o <<[events[i] EXCEPT !.events = events[i].events \o events[i + 1].events,
                           !.total_events = events[i].total_events
                                              + events[i + 1].total_events]>>
    \o SubSeq(events, i + 2, Len(events))
\* <<raw record, sub-record>> of every sub-record of recognized tag, in order
RECURSIVE RecognizedFrom(_, _, _)
RecognizedFrom(events, i, j) ==
    IF i > Len(events) THEN <<>>
    ELSE IF j > Len(events[i].events) THEN RecognizedFrom(events, i + 1, 1)
    ELSE (IF events[i].events[j].tag \in Recognized THEN <<(<<i, j>>)>> ELSE <<>>)
         \o RecognizedFrom(events, i, j + 1)
Kind(tag) == IF tag = "ExpiredOrder" THEN "Reduce" ELSE tag
AllDecode(events) ==
    \A i \in 1..Len(events) : events[i].header = "Header" /\ body_decodes(events[i])

\* C15: a raw record with a malformed, non-header or too short header, or an
\* undecodable body, is skipped alone: the call returns the events of the
\* other raw records of the transaction, and neither panics nor drops them.
C15_DecodeErrorSkipsOneRecord ==
    IsParse =>
       LET sound == SelectSeq(parse.events, LAMBDA event : ~Faulty(parse.op, event))
       IN  \E overflow_checks \in BOOLEAN :
              LET expected == Translate(parse.op, sound, overflow_checks)
              IN  expected.status = "Some" =>
                     /\ parse.result.status = "Some"
                     /\ parse.result.market_events = expected.market_events

\* C16: a sub-record of unrecognized tag is skipped and every sub-record after
\* it in the raw record is still decoded and emitted: the call returns what
\* it returns for the same records without their unrecognized sub-records.
C16_UnrecognizedTagSkipped ==
    (IsCore /\ \A i \in 1..Len(parse.events) : parse.events[i].header = "Header")
    => LET stripped == [i \in 1..Len(parse.events) |-> Strip(parse.events[i])]
       IN  \E overflow_checks \in BOOLEAN :
              /\ parse.result.status = "Some"
              /\ parse.result.market_events =
                    Translate(parse.op, stripped, overflow_checks).market_events

\* C17: two raw records, one after the other, with the same header identity
\* are merged into one batch whose sub-records are those of the first
\* followed by those of the second: the call returns what it returns for
\* the merged record.
C17_SameIdentityMerged ==
    IsCore =>
       \A i \in 1..(Len(parse.events) - 1) :
          SameIdentity(parse.events[i], parse.events[i + 1]) =>
             \E overflow_checks \in BOOLEAN :
                LET merged == Translate(parse.op, Merged(parse.events, i),
                                        overflow_checks)
                IN  /\ parse.result.status = merged.status
                    /\ parse.result.market_events = merged.market_events

\* C18: when every record decodes, the events come out in the order of the
\* raw records and, within one, of its sub-records: one event for each
\* sub-record of recognized tag, none dropped, duplicated or reordered, each
\* with the index of its sub-record and the header fields of its raw record.
C18_OutputOrder ==
    (IsCore /\ AllDecode(parse.events))
    => /\ parse.result.status = "Some"
       /\ parse.result.from = RecognizedFrom(parse.events, 1, 1)
       /\ Len(parse.result.market_events) = Len(parse.result.from)
       /\ \A k \in 1..Len(parse.result.from) :
             LET i == parse.result.from[k][1]
                 j == parse.result.from[k][2]
                 out == parse.result.market_events[k]
             IN  /\ out.event_index = parse.events[i].events[j].index
                 /\ out.sequence_number = parse.events[i].sequence_number
                 /\ out.signer = parse.events[i].signer
                 /\ out.details.kind = Kind(parse.events[i].events[j].tag)

\* <<raw record, sub-record>> of the Fills of the batch of raw record i that
\* come before its sub-record j: the batch is the raw records of the header
\* identity of raw record i, one after the other
FillsBefore(events, i, j) ==
    {at \in UNION {{<<a, m>> : m \in 1..Len(events[a].events)} : a \in 1..i} :
        /\ SameIdentity(events[at[1]], events[i])
        /\ events[at[1]].events[at[2]].tag = "Fill"
        /\ (at[1] < i \/ at[2] < j)}

\* C19: the trade_direction of a FillSummary is fixed by the first Fill
\* decoded before it in its batch: -1 when that Fill's side_filled is Bid,
\* +1 when it is Ask, 0 when there is none; later Fills do not change it.
C19_TradeDirectionFromFirstFill ==
    (IsCore /\ parse.result.status = "Some")
    => \A k \in 1..Len(parse.result.market_events) :
          parse.result.market_events[k].details.kind = "FillSummary" =>
             LET i == parse.result.from[k][1]
                 j == parse.result.from[k][2]
                 fills == FillsBefore(parse.events, i, j)
                 first == CHOOSE at \in fills :
                             \A other \in fills :
                                \/ at[1] < other[1]
                                \/ at[1] = other[1] /\ at[2] <= other[2]
                 fill == parse.events[first[1]].events[first[2]]
             IN  parse.result.market_events[k].details.trade_direction =
                    IF fills = {} THEN 0
                    ELSE IF from_order_sequence_number(fill.order_sequence_number) = "Bid"
                         THEN -1 ELSE 1

\* C20: every Fill emitted has is_full_fill exactly when base_lots_remaining
\* = 0, side_filled given by its order_sequence_number alone, and taker the
\* signer of its record's header; every Reduce has is_full_cancel exactly
\* when base_lots_remaining = 0.
C20_DerivedFields ==
    (IsParse /\ parse.result.status = "Some")
    => \A k \in 1..Len(parse.result.market_events) :
          LET out == parse.result.market_events[k]
              i == parse.result.from[k][1]
              j == parse.result.from[k][2]
              sub == parse.events[i].events[j]
          IN  /\ out.details.kind = "Fill" =>
                    /\ sub.tag = "Fill"
                    /\ out.details.base_lots_remaining = sub.base_lots_remaining
                    /\ out.details.order_sequence_number = sub.order_sequence_number
                    /\ out.details.is_full_fill = (out.details.base_lots_remaining = 0)
                    /\ out.details.side_filled =
                          from_order_sequence_number(out.details.order_sequence_number)
                    /\ out.details.taker = parse.events[i].signer
                    /\ \A n \in 1..Len(parse.result.market_events) :
                          LET other == parse.result.market_events[n]
                          IN  (/\ other.details.kind = "Fill"
                               /\ other.details.order_sequence_number
                                     = out.details.order_sequence_number)
                              => other.details.side_filled = out.details.side_filled
              /\ out.details.kind = "Reduce" =>
                    out.details.is_full_cancel = (out.details.base_lots_remaining = 0)

\* a full Fill of a bid, a partial Fill of an ask and a full Reduce came out
C20_Witness ==
    /\ IsParse
    /\ parse.result.status = "Some"
    /\ \E a, b, c \in 1..Len(parse.result.market_events) :
          LET x == parse.result.market_events[a].details
              y == parse.result.market_events[b].details
              z == parse.result.market_events[c].details
          IN  /\ x.kind = "Fill" /\ x.is_full_fill /\ x.side_filled = "Bid"
              /\ y.kind = "Fill" /\ ~y.is_full_fill /\ y.side_filled = "Ask"
              /\ z.kind = "Reduce" /\ z.is_full_cancel

\* C25: every update_orders call runs to its end, one step per pair; the
\* crossing loop of a pair removes exactly one opposite entry per iteration,
\* so it makes at most as many iterations as the opposite side has entries,
\* and when it stops the opposite side is empty or its best does not cross.
C25_CrossingLoopBounded ==
    IsUpdate =>
       /\ Len(steps) = Len(call.orders)
       /\ \A i \in 1..Len(steps) :
             LET was == Before(i).opp
             IN  /\ steps[i].iters <= Cardinality(DOMAIN was)
                 /\ Cardinality(DOMAIN steps[i].opp)
                       = Cardinality(DOMAIN was) - steps[i].iters
                 /\ (DOMAIN steps[i].opp) \subseteq DOMAIN was
                 /\ size(PairQty(i)) > 0 =>
                       \/ DOMAIN steps[i].opp = {}
                       \/ price(PairPrice(i)) * sign(call.side)
                             < price(opposite_best(call.side, steps[i].opp))
                                  * sign(call.side)

\* the loop of one pair ran as often as the opposite side had entries, twice
C25_Witness ==
    /\ IsUpdate
    /\ \E i \in 1..Len(steps) :
          /\ steps[i].iters = 2
          /\ Cardinality(DOMAIN Before(i).opp) = 2
          /\ DOMAIN steps[i].opp = {}

\* C26: no entry stored on either side has size 0, after every call and
\* after each pair within a call.
C26_NoZeroSizeEntry ==
    /\ \A k \in DOMAIN bids : size(bids[k]) > 0
    /\ \A k \in DOMAIN asks : size(asks[k]) > 0
    /\ \A i \in 1..Len(steps) :
          /\ \A k \in DOMAIN steps[i].book : size(steps[i].book[k]) > 0
          /\ \A k \in DOMAIN steps[i].opp : size(steps[i].opp[k]) > 0

\* a zero quantity came for a price without an entry, beside a stored entry
C26_Witness ==
    /\ IsUpdate
    /\ \E i \in 1..Len(steps) :
          /\ size(PairQty(i)) = 0
          /\ PairPrice(i) \notin DOMAIN Before(i).book
          /\ PairPrice(i) \notin DOMAIN steps[i].book
          /\ DOMAIN steps[i].book # {}

\* the frame of each pair of the call in progress
FrameOfPairs ==
    \A i \in 1..Len(steps) :
       LET p == PairPrice(i)
           was == Before(i)
           hit == Crossed(call.side, p, was.opp)
       IN  /\ (DOMAIN steps[i].book) \ {p} = (DOMAIN was.book) \ {p}
           /\ \A k \in (DOMAIN steps[i].book) \ {p} : steps[i].book[k] = was.book[k]
           /\ (size(PairQty(i)) = 0 \/ hit = {}) => steps[i].opp = was.opp
           /\ /\ (DOMAIN was.opp) \ hit \subseteq DOMAIN steps[i].opp
              /\ DOMAIN steps[i].opp \subseteq DOMAIN was.opp
              /\ \A k \in DOMAIN steps[i].opp : steps[i].opp[k] = was.opp[k]
\* C27: a pair at price p of update_orders(S, ..) changes on side S at most
\* the entry at p; a zero-quantity removal or a pair that does not cross
\* leaves the opposite side unchanged, a crossing pair only removes opposite
\* entries at or through p; the call never changes the two multipliers.
C27_Frame ==
    [][IsUpdate' =>
          /\ raw_base_units_per_base_lot' = raw_base_units_per_base_lot
          /\ quote_units_per_raw_base_unit_per_tick'
                = quote_units_per_raw_base_unit_per_tick
          /\ FrameOfPairs']_vars

\* a crossing pair beside an entry of its own side that stayed as it was,
\* with multipliers other than zero
C27_Witness ==
    /\ IsUpdate
    /\ raw_base_units_per_base_lot # 0
    /\ \E i \in 1..Len(steps) :
          /\ size(PairQty(i)) > 0
          /\ steps[i].iters >= 1
          /\ \E k \in DOMAIN Before(i).book :
                k # PairPrice(i) /\ k \in DOMAIN steps[i].book

\* C30: sell_quote returns a result for every ladder and every budget.
C30_SellQuoteNeverFaults ==
    IsSellQuote => ~sim.result.panicked

\* ====================================================================
\* Properties of the mirror's entry points, checked under BatchSpec
\* ====================================================================
\* the book after update_orders(side, [u]) for each u of orders, in order
RECURSIVE Successively(_, _, _, _)
Successively(b, a, side, orders) ==
    IF orders = <<>> THEN [bids |-> b, asks |-> a]
    ELSE LET one == book_after(b, a, side, <<Head(orders)>>)
         IN  Successively(one.bids, one.asks, side, Tail(orders))

\* C28: update_orders(side, [u1, ..., un]) leaves the book that the n calls
\* update_orders(side, [u1]), ..., update_orders(side, [un]) leave, and
\* process_book_update(side, p, v) and process_trade(side, p, v) leave the
\* book that update_orders(side, [(p, v)]) leaves.
C28_BatchEquivalence ==
    /\ IsUpdate =>
          LET one_by_one == Successively(pre.bids, pre.asks, call.side, call.orders)
          IN  /\ bids = one_by_one.bids
              /\ asks = one_by_one.asks
    /\ call.op \in {"process_book_update", "process_trade"} =>
          LET single == book_after(pre.bids, pre.asks, call.side, call.orders)
          IN  /\ Len(call.orders) = 1
              /\ bids = single.bids
              /\ asks = single.asks
              /\ steps = single.steps

\* a list of two pairs whose order matters: the other order leaves another book
C28_Witness ==
    /\ IsUpdate
    /\ Len(call.orders) = 2
    /\ \E i \in 1..2 : steps[i].iters > 0
    /\ LET swapped == Successively(pre.bids, pre.asks, call.side,
                                   <<call.orders[2], call.orders[1]>>)
       IN  swapped.bids # bids \/ swapped.asks # asks

\* ---------------------------------------------------------------- C21
IsDecode == decode.op # "none"
IsPostOnly == decode.op = "decode_post_only_packet_data"
\* the tag byte of the kind the decoder called is for, and of the other kind
OwnTag == IF IsPostOnly THEN 0 ELSE 1
OtherTag == IF IsPostOnly THEN 1 ELSE 0
Current == IF IsPostOnly THEN PostOnlyPacket ELSE LimitPacket
Deprecated == IF IsPostOnly THEN DeprecatedPostOnlyPacket ELSE DeprecatedLimitPacket
DecodesCurrent == try_from_slice(Current, Tail(decode.bytes)).ok
DecodesDeprecated == try_from_slice(Deprecated, Tail(decode.bytes)).ok
\* what the decoder returned is the packet the body encodes under the
\* current layout, or under the deprecated one with both new fields None
ReturnsCurrent ==
    /\ decode.result.ok
    /\ serialize(Current, decode.result.packet) = Tail(decode.bytes)
ReturnsUpgraded ==
    /\ decode.result.ok
    /\ decode.result.packet["last_valid_slot"] = None
    /\ decode.result.packet["last_valid_unix_timestamp_in_seconds"] = None
    /\ serialize(Deprecated, decode.result.packet) = Tail(decode.bytes)
    /\ DOMAIN decode.result.packet = {Current[i].name : i \in 1..Len(Current)}
AnswersBySchema ==
    /\ DecodesCurrent => ReturnsCurrent
    /\ (~DecodesCurrent /\ DecodesDeprecated) => ReturnsUpgraded

\* C21 as stated: the current-schema result when the bytes decode under the
\* current schema, otherwise the deprecated fields with the two new fields
\* None, and an error only when both schemas fail, the tag names the other
\* packet kind, or the input is empty.
C21_ErrorOnlyInThreeCases ==
    IsDecode =>
        IF decode.bytes = <<>> \/ Head(decode.bytes) = OtherTag
            \/ (~DecodesCurrent /\ ~DecodesDeprecated)
        THEN ~decode.result.ok
        ELSE AnswersBySchema

\* C21 (amended): a decoder returns an error when the input is empty, when
\* the tag byte names the other packet kind or no packet kind at all, or when
\* the body decodes under neither schema; otherwise it returns the
\* current-schema result when the body decodes under the current schema, and
\* else the deprecated fields with last_valid_slot and
\* last_valid_unix_timestamp_in_seconds set to None.
C21_VersionSkew ==
    IsDecode =>
        IF decode.bytes = <<>> \/ Head(decode.bytes) # OwnTag
            \/ (~DecodesCurrent /\ ~DecodesDeprecated)
        THEN ~decode.result.ok
        ELSE AnswersBySchema

\* a deprecated post-only packet was decoded and upgraded
C21_Witness ==
    /\ IsPostOnly
    /\ decode.bytes # <<>>
    /\ Head(decode.bytes) = OwnTag
    /\ ~DecodesCurrent
    /\ DecodesDeprecated
    /\ ReturnsUpgraded
    /\ decode.result.packet["price_in_ticks"] > 255

\* ---------------------------------------------------------------- C24
IsConv == conv.op # "none" /\ conv.market_key \in markets
LotSize ==
    IF conv.op \in {"base_atoms_to_base_lots", "base_lots_to_base_atoms"}
    THEN metadata.base_lot_size ELSE metadata.quote_lot_size
ToLots == conv.op \in {"base_atoms_to_base_lots", "quote_atoms_to_quote_lots"}
ToAtoms == conv.op \in {"base_lots_to_base_atoms", "quote_lots_to_quote_atoms"}

\* the carry of n * L + r into the i-th limb, and n * L + r itself, the
\* number and not the u64: <<>> when it is 2^64 or more
RECURSIVE LinearCarry(_, _, _, _)
LinearCarry(n, L, r, i) ==
    IF i = 1 THEN r ELSE (n[i - 1] * L + LinearCarry(n, L, r, i - 1)) \div Limb
Linear(n, L, r) ==
    IF LinearCarry(n, L, r, Len(n) + 1) # 0 THEN <<>>
    ELSE [i \in 1..Len(n) |-> (n[i] * L + LinearCarry(n, L, r, i)) % Limb]

\* C24: for a loaded market with lot size L >= 1, atoms -> lots returns
\* floor(a / L) and lots -> atoms returns n * L, so that lots -> atoms -> lots
\* is the identity and atoms -> lots -> atoms gives back at most the
\* original amount and loses fewer than L atoms.
C24_ConversionRounding ==
    (IsConv /\ LotSize >= 1) =>
        /\ conv.result.status = "Ok"
        /\ ToLots =>
              \E lost \in 0..(LotSize - 1) :
                  Linear(conv.result.value, LotSize, lost) = conv.amount
        /\ ToAtoms =>
              /\ conv.result.value = Linear(conv.amount, LotSize, 0)
              /\ \E lost \in 0..(LotSize - 1) :
                    Linear(conv.amount, LotSize, lost) = conv.result.value

\* ---------------------------------------------------------------- C29
IsHandle == handling.op = "handle_events"
\* the position of the first event whose handler fails, or one past the end
FirstFailure ==
    IF handling.failing = {} THEN Len(handling.events) + 1
    ELSE CHOOSE i \in handling.failing : \A j \in handling.failing : i <= j
Handled == IF handling.failing = {} THEN Len(handling.events) ELSE FirstFailure

\* C29: handle_events invokes exactly one handler per event, in input order
\* (handle_trade for Fill, handle_orderbook_update for Place, Reduce and
\* Evict, handle_fill_summary for FillSummary), and returns the first handler
\* error at once: no event after the failing one is handled.
C29_DispatchInOrder ==
    IsHandle =>
        LET invoked == handling.result.invoked
        IN  /\ Len(invoked) = Handled
            /\ \A i \in 1..Len(invoked) :
                  /\ invoked[i].index = i
                  /\ handling.events[i] = "Fill" =>
                        invoked[i].method = "handle_trade"
                  /\ handling.events[i] \in {"Place", "Reduce", "Evict"} =>
                        invoked[i].method = "handle_orderbook_update"
                  /\ handling.events[i] = "FillSummary" =>
                        invoked[i].method = "handle_fill_summary"
            /\ handling.failing = {} => handling.result.status = "Ok"
            /\ handling.failing # {} =>
                  /\ handling.result.status = "Err"
                  /\ handling.result.index = FirstFailure

\* the handler of the second of three events failed: two invocations, the
\* third event unhandled
C29_Witness ==
    /\ IsHandle
    /\ Len(handling.events) = 3
    /\ handling.events[1] # handling.events[2]
    /\ FirstFailure = 2
    /\ Len(handling.result.invoked) = 2
    /\ handling.result.status = "Err"

\* ---------------------------------------------------------------- C23
Signatures(items) == [i \in 1..Len(items) |-> items[i].signature]
\* the signatures of the batches sent in one poll, in the order sent
SentInPoll(n) == Signatures(SelectSeq(poller.sent, LAMBDA batch : batch.poll = n))
OldestFirst(signatures) ==
    [i \in 1..Len(signatures) |-> signatures[Len(signatures) + 1 - i]]

\* C23: event batches reach the consumer in ledger order: one batch per
\* fetched transaction, oldest first within a poll, every batch of a later
\* poll after every batch of an earlier poll; no batch is sent before the
\* batch of an older transaction.
C23_LedgerOrder ==
    /\ \A i, j \in 1..Len(poller.sent) :
          i < j =>
             /\ poller.sent[i].signature < poller.sent[j].signature
             /\ poller.sent[i].poll <= poller.sent[j].poll
    /\ \A i, j \in 1..Len(channel) :
          i < j => channel[i].signature < channel[j].signature
    /\ \A i \in 1..Len(poller.pending) :
          \A j \in 1..Len(poller.sent) :
             poller.sent[j].signature < poller.pending[i].signature
    /\ poller.pc \in {"for", "block_on", "send"} =>
          SentInPoll(poller.polls) \o Signatures(poller.pending)
              = OldestFirst(poller.fetched)

\* a poll fetched two transactions at once and sent both, after the batch
\* of an earlier poll
C23_Witness ==
    /\ Len(poller.sent) = 3
    /\ poller.sent[1].poll < poller.sent[2].poll
    /\ poller.sent[2].poll = poller.sent[3].poll
    /\ Len(channel) = 3

\* ---------------------------------------------------------------- C22
\* the best bid reaches the best ask
CrossedBook(b, a) ==
    \E pb \in DOMAIN b, pa \in DOMAIN a : price(pb) >= price(pa)
\* what a reader holds, as prices: the bids it read reach the asks it read
CrossedRead(r) ==
    \E i \in 1..Len(reader[r].bids), j \in 1..Len(reader[r].asks) :
        price(reader[r].bids[i][1]) >= price(reader[r].asks[j][1])

\* C22: single-writer atomicity: no reader runs while an update_orders call
\* is in progress, none sees the mirror between an upsert and the end of the
\* crossing-resolution loop it triggered, and no read returns a crossed book.
C22_SingleWriterAtomicity ==
    /\ writer.pc # "idle" => \A r \in Readers : reader[r].pc = "idle"
    /\ \A r \in Readers :
          /\ ~CrossedRead(r)
          /\ reader[r].pc \in {"get_asks", "return"} =>
                reader[r].bids = Rev(BTreeIter(bids))
          /\ reader[r].pc = "return" => reader[r].asks = BTreeIter(asks)
    /\ writer.pc = "idle" => ~CrossedBook(bids, asks)

\* the mirror is crossed in the middle of an update_orders call, after the
\* upsert and before the loop has removed the crossed entries
C22_Witness ==
    /\ writer.pc = "loop"
    /\ CrossedBook(bids, asks)
    /\ \A r \in Readers : reader[r].pc = "idle"

====
